---- MODULE Spec2Model ----
(***************************************************************************)
(* A model of the voxel engine's computational core: the flat voxel        *)
(* buffer and its coordinate mappings (settings.py, world.py), the chunk   *)
(* mesh builder (meshes/chunk_mesh_builder.py) and the ray caster          *)
(* (voxel_handler.py).                                                     *)
(*                                                                         *)
(* The chunk side and the world dimensions are the program's constants at  *)
(* a reduced scale (the program runs 32 and 10 x 3 x 10); every formula    *)
(* of the code is kept in terms of them.                                   *)
(***************************************************************************)
EXTENDS Integers, Sequences, FiniteSets, TLC

\* ------------------------------------------------------------ settings.py
CHUNK_SIZE == 3
CHUNK_AREA == CHUNK_SIZE * CHUNK_SIZE
CHUNK_VOLUME == CHUNK_AREA * CHUNK_SIZE

WORLD_WIDTH == 2
WORLD_HEIGHT == 2
WORLD_DEPTH == WORLD_WIDTH
WORLD_AREA == WORLD_WIDTH * WORLD_DEPTH
WORLD_VOLUME == WORLD_AREA * WORLD_HEIGHT

\* ------------------------------------------------------------ state
VARIABLES
    voxels,         \* World.voxels: [chunk index -> [voxel index -> uint8]]
    probe,          \* a world voxel position handed to the grid queries
    probe_out,      \* << >>, or <<what the grid query returned for it>>
    pk_args,        \* the arguments of a pack_data call
    pk_word,        \* << >>, or the word pack_data returned for them
    mesh_chunk,     \* the chunk whose mesh was built last (-1: none yet)
    vertex_data,    \* the array build_chunk_mesh returned for it

    mesh_oob,       \* the byte that build's reads past the voxel buffer returned
    position,       \* player.position, in units of 1 / EyeGrid voxel
    forward_ray,    \* player.forward * MAX_RAY_DISTANCE, in voxels
    rc_pc,          \* cast_ray: "idle" (not called), "loop", "done" (returned)
    current_voxel_position,
    prev_voxel_position,    \* current_voxel_position before the last advance
    step_direction,
    dxyz,           \* <<dx, dy, dz>>
    delta,          \* <<delta_x, delta_y, delta_z>>, in units of 1 / TUnit
    max_t,          \* <<max_x, max_y, max_z>>, in units of 1 / TUnit
    self_voxel_id,  \* VoxelHandler's fields; None is kept as 0, <<0, 0, 0>>, -1
    self_voxel_index,
    voxel_local_position,
    chunk,          \* the slot of the chunk object, -1: not a chunk
    voxel_world_position,
    voxel_normal,
    returned,       \* << >>, or <<what cast_ray returned>>
    is_empty,       \* Chunk.is_empty of each chunk
    meshes,         \* each chunk's mesh: what its vertex data was built from
    rebuilt,        \* the chunks whose mesh the last edit call rebuilt, in order
    raised,         \* "", or the exception that ended the program
    called,         \* the edit operation called last, "" before the first
    history,        \* the edits that wrote a voxel, each with the id it wrote over
                    \* (remove) or wrote (add) and the buffer and the owning chunk's
                    \* mesh before it
    camera,         \* Camera: position, forward, right, up
    on_frustum,     \* << >>, or <<the chunk render asked about, what is_on_frustum said>>
    chunks,         \* World.chunks: the position of the chunk in each slot, << >>: None
    build_i,        \* build_chunks: the iterations of its loop nest that are done
    terrain         \* the world_height the noise gives for each column (wx, wz)

gridVars == <<probe, probe_out>>
packVars == <<pk_args, pk_word>>
meshVars == <<mesh_chunk, vertex_data, mesh_oob>>
castVars == <<position, forward_ray, rc_pc, current_voxel_position,
              prev_voxel_position, step_direction, dxyz, delta, max_t, returned>>
handlerVars == <<self_voxel_id, self_voxel_index, voxel_local_position, chunk,
                 voxel_world_position, voxel_normal>>
rayVars == <<castVars, handlerVars>>
frustumVars == <<camera, on_frustum>>
editVars == <<is_empty, meshes, rebuilt, raised, called, history>>
buildVars == <<chunks, build_i, terrain>>
vars == <<voxels, buildVars, gridVars, packVars, meshVars, rayVars, editVars, frustumVars>>

\* ------------------------------------------------------------ helpers
RECURSIVE Pow2Rec(_)
Pow2Rec(n) == IF n = 0 THEN 1 ELSE 2 * Pow2Rec(n - 1)

Pow2Table == [n \in 0 .. 30 |-> Pow2Rec(n)]

\* 2^n
Pow2(n) == Pow2Table[n]

\* bit i of the non-negative integer a
Bit(a, i) == (a \div Pow2(i)) % 2

\* a | b for a, b in 0 .. 15, bit by bit
OrTable ==
    [a \in 0 .. 15 |-> [b \in 0 .. 15 |->
        (IF Bit(a, 0) + Bit(b, 0) > 0 THEN 1 ELSE 0)
        + (IF Bit(a, 1) + Bit(b, 1) > 0 THEN 2 ELSE 0)
        + (IF Bit(a, 2) + Bit(b, 2) > 0 THEN 4 ELSE 0)
        + (IF Bit(a, 3) + Bit(b, 3) > 0 THEN 8 ELSE 0)]]

\* a | b for non-negative integers, four bits at a time
RECURSIVE BitOr(_, _)
BitOr(a, b) ==
    IF a = 0 THEN b
    ELSE IF b = 0 THEN a
    ELSE OrTable[a % 16][b % 16] + (16 * BitOr(a \div 16, b \div 16))

\* Machine words are kept as pairs <<high part, low 16 bits>>, so that a 32-bit
\* value never has to fit one model integer.
Half == Pow2(16)

\* a << n as a word, for a field value a below 2^15
Shl(a, n) ==
    IF n >= 16 THEN << a * Pow2(n - 16), 0 >>
    ELSE << (a * Pow2(n)) \div Half, (a * Pow2(n)) % Half >>

\* u | v on words
WordOr(u, v) == << BitOr(u[1], v[1]), BitOr(u[2], v[2]) >>

\* a store into a dtype='uint32' array keeps the low 32 bits
UInt32(w) == << w[1] % Half, w[2] >>

\* Python's int(bool)
BoolInt(b) == IF b THEN 1 ELSE 0

\* ivec3 / int of PyGLM: C integer division, rounding toward zero
TruncDiv(a, b) == IF a >= 0 THEN a \div b ELSE -((-a) \div b)

\* ------------------------------------------------------------ coordinates
Chunks == 0 .. WORLD_VOLUME - 1
VoxelIndices == 0 .. CHUNK_VOLUME - 1

\* world.py build_chunks: the slot of chunk (x, y, z)
ChunkSlot(cx, cy, cz) == cx + (WORLD_WIDTH * cz) + (WORLD_AREA * cy)

\* the chunk position stored in slot c (Chunk.position of chunks[c])
ChunkPosition(c) ==
    << (c % WORLD_WIDTH), (c \div WORLD_AREA), ((c \div WORLD_WIDTH) % WORLD_DEPTH) >>

\* chunk.py build_voxels / chunk_mesh_builder.py: the index of local (x, y, z)
VoxelIndex(x, y, z) == x + (CHUNK_SIZE * z) + (CHUNK_AREA * y)

\* the world really holds a voxel at p
InWorld(p) ==
    /\ 0 <= p[1] /\ p[1] < WORLD_WIDTH * CHUNK_SIZE
    /\ 0 <= p[2] /\ p[2] < WORLD_HEIGHT * CHUNK_SIZE
    /\ 0 <= p[3] /\ p[3] < WORLD_DEPTH * CHUNK_SIZE

\* the id the buffer holds for the in-world position p
VoxelAt(wv, p) ==
    wv[ChunkSlot(p[1] \div CHUNK_SIZE, p[2] \div CHUNK_SIZE, p[3] \div CHUNK_SIZE)]
      [VoxelIndex(p[1] % CHUNK_SIZE, p[2] % CHUNK_SIZE, p[3] % CHUNK_SIZE)]

\* ------------------------------------------------ chunk_mesh_builder.py
get_chunk_index(world_voxel_position) ==
    LET wx == world_voxel_position[1]
        wy == world_voxel_position[2]
        wz == world_voxel_position[3]
        cx == wx \div CHUNK_SIZE
        cy == wy \div CHUNK_SIZE
        cz == wz \div CHUNK_SIZE
    IN  \* "not a and b and c" parses as "(not a) and b and c"
        IF /\ ~(0 <= cx /\ cx < WORLD_WIDTH)
           /\ (0 <= cy /\ cy < WORLD_HEIGHT)
           /\ (0 <= cz /\ cz < WORLD_DEPTH)
        THEN -1
        ELSE cx + (WORLD_WIDTH * cz) + (WORLD_AREA * cy)

\* world_voxels[chunk_index][voxel_index] in compiled (njit) code: a negative
\* chunk index wraps around once, and no bounds are checked, so an index still
\* outside the buffer reads whatever byte lies there: oob
ReadWorld(wv, oob, chunk_index, voxel_index) ==
    LET ci == IF chunk_index < 0 THEN chunk_index + WORLD_VOLUME ELSE chunk_index
    IN  IF ci \in Chunks THEN wv[ci][voxel_index] ELSE oob

\* is_void with the world's edge left open: no chunk there, so nothing solid
is_void_open(local_voxel_position, world_voxel_position, wv, oob) ==
    LET chunk_index == get_chunk_index(world_voxel_position)
        x == local_voxel_position[1]
        y == local_voxel_position[2]
        z == local_voxel_position[3]
        voxel_index ==
            (x % CHUNK_SIZE) + ((z % CHUNK_SIZE) * CHUNK_SIZE) + ((y % CHUNK_SIZE) * CHUNK_AREA)
    IN  IF chunk_index = -1 THEN TRUE
        ELSE IF ReadWorld(wv, oob, chunk_index, voxel_index) # 0 THEN FALSE
        ELSE TRUE

\* is_void looking only into the chunk being meshed: beyond its border, void
is_void_local(local_voxel_position, world_voxel_position, wv, oob) ==
    LET chunk_index == get_chunk_index(world_voxel_position)
        x == local_voxel_position[1]
        y == local_voxel_position[2]
        z == local_voxel_position[3]
        voxel_index ==
            (x % CHUNK_SIZE) + ((z % CHUNK_SIZE) * CHUNK_SIZE) + ((y % CHUNK_SIZE) * CHUNK_AREA)
    IN  IF chunk_index = -1 THEN FALSE
        ELSE IF \E a \in 1 .. 3 : local_voxel_position[a] \notin 0 .. CHUNK_SIZE - 1
             THEN TRUE
        ELSE IF ReadWorld(wv, oob, chunk_index, voxel_index) # 0 THEN FALSE
        ELSE TRUE

is_void(local_voxel_position, world_voxel_position, wv, oob) ==
    LET chunk_index == get_chunk_index(world_voxel_position)
        x == local_voxel_position[1]
        y == local_voxel_position[2]
        z == local_voxel_position[3]
        voxel_index ==
            (x % CHUNK_SIZE) + ((z % CHUNK_SIZE) * CHUNK_SIZE) + ((y % CHUNK_SIZE) * CHUNK_AREA)
    IN  IF chunk_index = -1 THEN FALSE
        ELSE IF ReadWorld(wv, oob, chunk_index, voxel_index) # 0 THEN FALSE
        ELSE TRUE

\* the eight in-plane sample offsets a .. h of get_ambient_occlusion
AoOffsets(plane) ==
    CASE plane = "Y" ->
           << <<0, 0, -1>>, <<-1, 0, -1>>, <<-1, 0, 0>>, <<-1, 0, 1>>,
              <<0, 0, 1>>,  <<1, 0, 1>>,   <<1, 0, 0>>,  <<1, 0, -1>> >>
      [] plane = "X" ->
           << <<0, 0, -1>>, <<0, -1, -1>>, <<0, -1, 0>>, <<0, -1, 1>>,
              <<0, 0, 1>>,  <<0, 1, 1>>,   <<0, 1, 0>>,  <<0, 1, -1>> >>
      [] plane = "Z" ->
           << <<-1, 0, 0>>, <<-1, -1, 0>>, <<0, -1, 0>>, <<1, -1, 0>>,
              <<1, 0, 0>>,  <<1, 1, 0>>,   <<0, 1, 0>>,  <<-1, 1, 0>> >>

Add3(p, q) == << p[1] + q[1], p[2] + q[2], p[3] + q[3] >>

\* get_ambient_occlusion with the sums handed out one corner further on
get_ambient_occlusion_turned(local_position, world_position, wv, oob, plane) ==
    LET off == AoOffsets(plane)
        s(i) == BoolInt(is_void(Add3(local_position, off[i]),
                            Add3(world_position, off[i]), wv, oob))
    IN  << s(7) + s(8) + s(1), s(5) + s(6) + s(7), s(3) + s(4) + s(5), s(1) + s(2) + s(3) >>

get_ambient_occlusion(local_position, world_position, wv, oob, plane) ==
    LET off == AoOffsets(plane)
        s(i) == BoolInt(is_void(Add3(local_position, off[i]),
                            Add3(world_position, off[i]), wv, oob))
        a == s(1)
        b == s(2)
        c == s(3)
        d == s(4)
        e == s(5)
        f == s(6)
        g == s(7)
        h == s(8)
    IN  << a + b + c, g + h + a, e + f + g, c + d + e >>

\* the widths pack_data gives the fields after x
b_bit == 6
c_bit == 6
d_bit == 8
e_bit == 3
f_bit == 2
g_bit == 1

\* pack_data with y shifted like z
pack_data_yz(x, y, z, voxel_id, face_id, ao_id, flip_id) ==
    LET fg_bit == f_bit + g_bit
        efg_bit == e_bit + fg_bit
        defg_bit == d_bit + efg_bit
        cdefg_bit == c_bit + defg_bit
        bcdefg_bit == b_bit + cdefg_bit
    IN  WordOr(Shl(x, bcdefg_bit),
        WordOr(Shl(y, defg_bit),
        WordOr(Shl(z, defg_bit),
        WordOr(Shl(voxel_id, efg_bit),
        WordOr(Shl(face_id, fg_bit),
        WordOr(Shl(ao_id, g_bit), Shl(flip_id, 0)))))))

pack_data(x, y, z, voxel_id, face_id, ao_id, flip_id) ==
    LET fg_bit == f_bit + g_bit
        efg_bit == e_bit + fg_bit
        defg_bit == d_bit + efg_bit
        cdefg_bit == c_bit + defg_bit
        bcdefg_bit == b_bit + cdefg_bit
    IN  WordOr(Shl(x, bcdefg_bit),
        WordOr(Shl(y, cdefg_bit),
        WordOr(Shl(z, defg_bit),
        WordOr(Shl(voxel_id, efg_bit),
        WordOr(Shl(face_id, fg_bit),
        WordOr(Shl(ao_id, g_bit), Shl(flip_id, 0)))))))

\* add_data: the vertices, stored one after the other as uint32 from index on;
\* index, which it returns advanced, is the length of the words written so far
add_data(vertices) == [i \in 1 .. Len(vertices) |-> UInt32(vertices[i])]

\* Faces with the flipped front face in the order of the back face
Faces_mirrored ==
    << [face_id |-> 0, plane |-> "Y", n |-> <<0, 1, 0>>,
        v |-> << <<0, 1, 0>>, <<1, 1, 0>>, <<1, 1, 1>>, <<0, 1, 1>> >>,
        flipped |-> <<1, 0, 3, 1, 3, 2>>, plain |-> <<0, 3, 2, 0, 2, 1>>],
       [face_id |-> 1, plane |-> "Y", n |-> <<0, -1, 0>>,
        v |-> << <<0, 0, 0>>, <<1, 0, 0>>, <<1, 0, 1>>, <<0, 0, 1>> >>,
        flipped |-> <<1, 3, 0, 1, 2, 3>>, plain |-> <<0, 2, 3, 0, 1, 2>>],
       [face_id |-> 2, plane |-> "X", n |-> <<1, 0, 0>>,
        v |-> << <<1, 0, 0>>, <<1, 1, 0>>, <<1, 1, 1>>, <<1, 0, 1>> >>,
        flipped |-> <<3, 0, 1, 3, 1, 2>>, plain |-> <<0, 1, 2, 0, 2, 3>>],
       [face_id |-> 3, plane |-> "X", n |-> <<-1, 0, 0>>,
        v |-> << <<0, 0, 0>>, <<0, 1, 0>>, <<0, 1, 1>>, <<0, 0, 1>> >>,
        flipped |-> <<3, 1, 0, 3, 2, 1>>, plain |-> <<0, 2, 1, 0, 3, 2>>],
       [face_id |-> 4, plane |-> "Z", n |-> <<0, 0, -1>>,
        v |-> << <<0, 0, 0>>, <<0, 1, 0>>, <<1, 1, 0>>, <<1, 0, 0>> >>,
        flipped |-> <<3, 0, 1, 3, 1, 2>>, plain |-> <<0, 1, 2, 0, 2, 3>>],
       [face_id |-> 5, plane |-> "Z", n |-> <<0, 0, 1>>,
        v |-> << <<0, 0, 1>>, <<0, 1, 1>>, <<1, 1, 1>>, <<1, 0, 1>> >>,
        flipped |-> <<3, 0, 1, 3, 1, 2>>, plain |-> <<0, 2, 1, 0, 3, 2>>] >>

\* The six faces in the order build_chunk_mesh tests them. n: the step to the
\* neighbour, v: the corners v0..v3 as offsets from the voxel, plain / flipped:
\* the order (indices into v0..v3) handed to add_data.
Faces ==
    << [face_id |-> 0, plane |-> "Y", n |-> <<0, 1, 0>>,
        v |-> << <<0, 1, 0>>, <<1, 1, 0>>, <<1, 1, 1>>, <<0, 1, 1>> >>,
        flipped |-> <<1, 0, 3, 1, 3, 2>>, plain |-> <<0, 3, 2, 0, 2, 1>>],
       [face_id |-> 1, plane |-> "Y", n |-> <<0, -1, 0>>,
        v |-> << <<0, 0, 0>>, <<1, 0, 0>>, <<1, 0, 1>>, <<0, 0, 1>> >>,
        flipped |-> <<1, 3, 0, 1, 2, 3>>, plain |-> <<0, 2, 3, 0, 1, 2>>],
       [face_id |-> 2, plane |-> "X", n |-> <<1, 0, 0>>,
        v |-> << <<1, 0, 0>>, <<1, 1, 0>>, <<1, 1, 1>>, <<1, 0, 1>> >>,
        flipped |-> <<3, 0, 1, 3, 1, 2>>, plain |-> <<0, 1, 2, 0, 2, 3>>],
       [face_id |-> 3, plane |-> "X", n |-> <<-1, 0, 0>>,
        v |-> << <<0, 0, 0>>, <<0, 1, 0>>, <<0, 1, 1>>, <<0, 0, 1>> >>,
        flipped |-> <<3, 1, 0, 3, 2, 1>>, plain |-> <<0, 2, 1, 0, 3, 2>>],
       [face_id |-> 4, plane |-> "Z", n |-> <<0, 0, -1>>,
        v |-> << <<0, 0, 0>>, <<0, 1, 0>>, <<1, 1, 0>>, <<1, 0, 0>> >>,
        flipped |-> <<3, 0, 1, 3, 1, 2>>, plain |-> <<0, 1, 2, 0, 2, 3>>],
       [face_id |-> 5, plane |-> "Z", n |-> <<0, 0, 1>>,
        v |-> << <<0, 0, 1>>, <<0, 1, 1>>, <<1, 1, 1>>, <<1, 0, 1>> >>,
        flipped |-> <<3, 1, 0, 3, 2, 1>>, plain |-> <<0, 2, 1, 0, 3, 2>>] >>

\* FaceWords flipping on a tie as well
FaceWords_eager(F, l, w, voxel_id, wv, oob) ==
    IF is_void(Add3(l, F.n), Add3(w, F.n), wv, oob)
    THEN LET ao == get_ambient_occlusion(Add3(l, F.n), Add3(w, F.n), wv, oob, F.plane)
             flip_id == BoolInt(ao[2] + ao[4] >= ao[1] + ao[3])
             vtx == [k \in 1 .. 4 |->
                       pack_data(l[1] + F.v[k][1], l[2] + F.v[k][2], l[3] + F.v[k][3],
                                 voxel_id, F.face_id, ao[k], flip_id)]
             order == IF flip_id = 1 THEN F.flipped ELSE F.plain
         IN  add_data([i \in 1 .. 6 |-> vtx[order[i] + 1]])
    ELSE << >>

\* one face of the voxel at local l / world w: what its "if is_void(...)" block
\* appends to vertex_data
FaceWords(F, l, w, voxel_id, wv, oob) ==
    IF is_void(Add3(l, F.n), Add3(w, F.n), wv, oob)
    THEN LET ao == get_ambient_occlusion(Add3(l, F.n), Add3(w, F.n), wv, oob, F.plane)
             flip_id == BoolInt(ao[2] + ao[4] > ao[1] + ao[3])
             vtx == [k \in 1 .. 4 |->
                       pack_data(l[1] + F.v[k][1], l[2] + F.v[k][2], l[3] + F.v[k][3],
                                 voxel_id, F.face_id, ao[k], flip_id)]
             order == IF flip_id = 1 THEN F.flipped ELSE F.plain
         IN  add_data([i \in 1 .. 6 |-> vtx[order[i] + 1]])
    ELSE << >>

\* the body of the loop nest "for x / for y / for z" in its k-th iteration
VoxelWords(k, chunk_voxels, chunk_position, wv, oob) ==
    LET x == k \div CHUNK_AREA
        y == (k \div CHUNK_SIZE) % CHUNK_SIZE
        z == k % CHUNK_SIZE
        l == <<x, y, z>>
        voxel_id == chunk_voxels[x + (CHUNK_SIZE * z) + (CHUNK_AREA * y)]
        w == << x + (chunk_position[1] * CHUNK_SIZE),
                y + (chunk_position[2] * CHUNK_SIZE),
                z + (chunk_position[3] * CHUNK_SIZE) >>
    IN  IF voxel_id = 0 THEN << >>
        ELSE FaceWords(Faces[1], l, w, voxel_id, wv, oob)
             \o FaceWords(Faces[2], l, w, voxel_id, wv, oob)
             \o FaceWords(Faces[3], l, w, voxel_id, wv, oob)
             \o FaceWords(Faces[4], l, w, voxel_id, wv, oob)
             \o FaceWords(Faces[5], l, w, voxel_id, wv, oob)
             \o FaceWords(Faces[6], l, w, voxel_id, wv, oob)

\* the loop nest from its k-th iteration on
RECURSIVE MeshLoop(_, _, _, _, _)
MeshLoop(k, chunk_voxels, chunk_position, wv, oob) ==
    IF k >= CHUNK_VOLUME THEN << >>
    ELSE VoxelWords(k, chunk_voxels, chunk_position, wv, oob)
         \o MeshLoop(k + 1, chunk_voxels, chunk_position, wv, oob)

\* the words build_chunk_mesh writes for the chunk, vertex_data[0 : index]
MeshWords(chunk_voxels, chunk_position, wv, oob) ==
    MeshLoop(0, chunk_voxels, chunk_position, wv, oob)

\* build_chunk_mesh returns vertex_data[:index + 1]: the words written and the
\* slot after them, which np.empty left uninitialised (uninit)
build_chunk_mesh(chunk_voxels, chunk_position, wv, oob, uninit) ==
    Append(MeshWords(chunk_voxels, chunk_position, wv, oob), uninit)

\* ------------------------------------------------------------ worlds
Positions ==
    (0 .. WORLD_WIDTH * CHUNK_SIZE - 1) \X (0 .. WORLD_HEIGHT * CHUNK_SIZE - 1)
        \X (0 .. WORLD_DEPTH * CHUNK_SIZE - 1)

\* the world position of voxel i of chunk c
PositionOf(c, i) ==
    LET cp == ChunkPosition(c)
    IN  << (i % CHUNK_SIZE) + (cp[1] * CHUNK_SIZE),
           (i \div CHUNK_AREA) + (cp[2] * CHUNK_SIZE),
           ((i \div CHUNK_SIZE) % CHUNK_SIZE) + (cp[3] * CHUNK_SIZE) >>

\* the buffer world.py build_chunks fills, with no voxel solid
EmptyWorld == [c \in Chunks |-> [i \in VoxelIndices |-> 0]]

Steps6 == {Faces[f].n : f \in 1 .. 6}

\* the buffer wv with the in-world position p set to id
WithVoxel(wv, p, id) ==
    LET c == ChunkSlot(p[1] \div CHUNK_SIZE, p[2] \div CHUNK_SIZE, p[3] \div CHUNK_SIZE)
        i == VoxelIndex(p[1] % CHUNK_SIZE, p[2] % CHUNK_SIZE, p[3] % CHUNK_SIZE)
    IN  [wv EXCEPT ![c][i] = id]

RECURSIVE WithVoxels(_, _, _)
WithVoxels(wv, ps, id) ==
    IF ps = {} THEN wv
    ELSE LET p == CHOOSE q \in ps : TRUE
         IN  WithVoxels(WithVoxel(wv, p, id), ps \ {p}, id)

\* a solid voxel of id a at centre, and the face neighbours ns of it that the
\* world holds solid with id 1
PlusWorld(centre, a, ns) ==
    WithVoxel(WithVoxels(EmptyWorld, {Add3(centre, n) : n \in ns} \cap Positions, 1),
              centre, a)

\* per axis: the two outer layers of the world, both sides of the chunk border
\* in between, and a voxel interior to its chunk
CentreCoords(dim) == {0, 1, CHUNK_SIZE - 1, CHUNK_SIZE, (dim * CHUNK_SIZE) - 1}

\* the centres: every such layer on one axis at a time, and the diagonal
Centres ==
    {<<x, 1, 1>> : x \in CentreCoords(WORLD_WIDTH)}
    \cup {<<1, y, 1>> : y \in CentreCoords(WORLD_HEIGHT)}
    \cup {<<1, 1, z>> : z \in CentreCoords(WORLD_DEPTH)}
    \cup {<<x, x, x>> : x \in CentreCoords(WORLD_WIDTH) \cap CentreCoords(WORLD_HEIGHT)}

MeshWorlds ==
    {EmptyWorld} \cup
    {PlusWorld(centre, 99, ns) : centre \in Centres, ns \in SUBSET Steps6}

\* the eight positions around p in the plane across the direction n
Ring(p, n) ==
    {Add3(p, o) : o \in {o \in {-1, 0, 1} \X {-1, 0, 1} \X {-1, 0, 1} :
                            /\ (o[1] * n[1]) + (o[2] * n[2]) + (o[3] * n[3]) = 0
                            /\ o # <<0, 0, 0>>}}

\* a voxel inside a chunk and one at the corner where eight chunks meet
RingCentres == { <<1, 1, 1>>, <<CHUNK_SIZE, CHUNK_SIZE, CHUNK_SIZE>> }

\* a solid voxel of id 99 with one face free, and up to two solid voxels of id
\* 1 among the eight positions around the position in front of that face
RingWorlds ==
    UNION {{WithVoxel(WithVoxels(EmptyWorld, ns, 1), centre, 99) :
               ns \in {ns \in SUBSET Ring(Add3(centre, n), n) : Cardinality(ns) <= 2}}
             : centre \in RingCentres, n \in Steps6}

\* what a read past the end of the voxel buffer may return
OobBytes == {0, 255}

\* what the slot np.empty allocated and nothing wrote may hold
UninitWords == { <<0, 0>>, <<Half - 1, Half - 1>> }

\* ------------------------------------------------------------ idle parts
GridIdle == probe = <<0, 0, 0>> /\ probe_out = << >>
PackIdle == pk_args = <<0, 0, 0, 0, 0, 0, 0>> /\ pk_word = << >>
MeshIdle == mesh_chunk = -1 /\ vertex_data = << >> /\ mesh_oob = 0

\* VoxelHandler.__init__, before any cast_ray
HandlerInit ==
    /\ chunk = -1 /\ self_voxel_id = 0 /\ self_voxel_index = 0
    /\ voxel_local_position = <<0, 0, 0>> /\ voxel_world_position = <<0, 0, 0>>
    /\ voxel_normal = <<0, 0, 0>>

CastIdle ==
    /\ rc_pc = "idle" /\ returned = << >>
    /\ current_voxel_position = <<0, 0, 0>> /\ prev_voxel_position = <<0, 0, 0>>
    /\ step_direction = -1
    /\ dxyz = <<0, 0, 0>> /\ delta = <<0, 0, 0>> /\ max_t = <<0, 0, 0>>

\* the edit part left out: no flags, no meshes, no edit made
EditIdle ==
    /\ is_empty = << >> /\ meshes = << >> /\ rebuilt = << >>
    /\ raised = "" /\ called = "" /\ history = << >>

FrustumIdle == camera = << >> /\ on_frustum = << >>

\* the columns of the world
Columns == (0 .. (WORLD_WIDTH * CHUNK_SIZE) - 1) \X (0 .. (WORLD_DEPTH * CHUNK_SIZE) - 1)

\* World.__init__ is over: build_chunks has put every chunk in its slot
WorldBuilt ==
    /\ chunks = [c \in Chunks |-> ChunkPosition(c)]
    /\ build_i = WORLD_VOLUME
    /\ terrain = [col \in Columns |-> 0]

RayIdle ==
    /\ position = <<0, 0, 0>> /\ forward_ray = <<0, 0, 0>>
    /\ CastIdle /\ HandlerInit

\* ------------------------------------------------------------ pack_data
\* the range of each argument: x, y, z, voxel_id, face_id, ao_id, flip_id
FieldWidths == << 32 - (b_bit + c_bit + d_bit + e_bit + f_bit + g_bit),
                  b_bit, c_bit, d_bit, e_bit, f_bit, g_bit >>

FieldMax(i) == Pow2(FieldWidths[i]) - 1

\* one argument anywhere in its range, the others at either end of theirs
PackRange(i, j) == IF i = j THEN 0 .. FieldMax(j) ELSE {0, FieldMax(j)}

PackInputs ==
    UNION { PackRange(i, 1) \X PackRange(i, 2) \X PackRange(i, 3) \X PackRange(i, 4)
              \X PackRange(i, 5) \X PackRange(i, 6) \X PackRange(i, 7) : i \in 1 .. 7 }

\* a call of pack_data with the arguments drawn
PackCall ==
    /\ pk_word = << >>
    /\ pk_word' = pack_data(pk_args[1], pk_args[2], pk_args[3], pk_args[4],
                            pk_args[5], pk_args[6], pk_args[7])
    /\ UNCHANGED <<voxels, buildVars, editVars, frustumVars, gridVars, meshVars, pk_args, rayVars>>

InitPack ==
    /\ voxels = EmptyWorld /\ GridIdle /\ MeshIdle /\ RayIdle /\ EditIdle /\ FrustumIdle /\ WorldBuilt
    /\ pk_args \in PackInputs /\ pk_word = << >>
SpecPack == InitPack /\ [][PackCall]_vars

\* ------------------------------------------------------------ chunk meshes
\* ChunkMesh.get_vertex_data for the chunk in slot c
BuildMesh(c) ==
    /\ mesh_chunk = -1
    /\ \E oob \in OobBytes, uninit \in UninitWords :
         /\ mesh_oob' = oob
         /\ vertex_data' =
              build_chunk_mesh(voxels[c], ChunkPosition(c), voxels, oob, uninit)
    /\ mesh_chunk' = c
    /\ UNCHANGED <<voxels, buildVars, editVars, frustumVars, gridVars, packVars, rayVars>>

NextMesh == \E c \in Chunks : BuildMesh(c)

InitMesh ==
    voxels \in MeshWorlds \cup RingWorlds /\ GridIdle /\ PackIdle /\ MeshIdle /\ RayIdle /\ EditIdle /\ FrustumIdle /\ WorldBuilt
SpecMesh == InitMesh /\ [][NextMesh]_vars

\* ------------------------------------------------------------ grid queries
\* per axis: from more than a chunk below the world to more than a chunk above
ProbeCoords(dim) == (0 - CHUNK_SIZE - 1) .. ((dim + 1) * CHUNK_SIZE)

ProbePositions ==
    ProbeCoords(WORLD_WIDTH) \X ProbeCoords(WORLD_HEIGHT) \X ProbeCoords(WORLD_DEPTH)

\* a call get_chunk_index(probe)
QueryChunkIndex ==
    /\ probe_out = << >>
    /\ probe_out' = << get_chunk_index(probe) >>
    /\ UNCHANGED <<voxels, buildVars, editVars, frustumVars, probe, packVars, meshVars, rayVars>>

InitGrid ==
    /\ voxels = EmptyWorld /\ PackIdle /\ MeshIdle /\ RayIdle /\ EditIdle /\ FrustumIdle /\ WorldBuilt
    /\ probe \in ProbePositions /\ probe_out = << >>
SpecGrid == InitGrid /\ [][QueryChunkIndex]_vars

\* ------------------------------------------------------------ voxel_handler.py
\* chunk.voxels[voxel_index] on a numpy array: a negative index counts from the
\* end (the indices get_voxel_id forms never leave -CHUNK_VOLUME .. CHUNK_VOLUME-1)
NumpyIndex(i) == IF i < 0 THEN i + CHUNK_VOLUME ELSE i

\* get_voxel_id with the world's edge a wall: a position in no chunk is occupied
get_voxel_id_wall(wv, voxel_world_position_) ==
    LET cx == TruncDiv(voxel_world_position_[1], CHUNK_SIZE)
        cy == TruncDiv(voxel_world_position_[2], CHUNK_SIZE)
        cz == TruncDiv(voxel_world_position_[3], CHUNK_SIZE)
    IN  IF /\ 0 <= cx /\ cx < WORLD_WIDTH
           /\ 0 <= cy /\ cy < WORLD_HEIGHT
           /\ 0 <= cz /\ cz < WORLD_DEPTH
        THEN LET chunk_index == cx + (WORLD_WIDTH * cz) + (WORLD_AREA * cy)
                 lx == voxel_world_position_[1] - (cx * CHUNK_SIZE)
                 ly == voxel_world_position_[2] - (cy * CHUNK_SIZE)
                 lz == voxel_world_position_[3] - (cz * CHUNK_SIZE)
                 voxel_index_ == lx + (CHUNK_SIZE * lz) + (CHUNK_AREA * ly)
             IN  [voxel_id |-> wv[chunk_index][NumpyIndex(voxel_index_)],
                  voxel_index |-> voxel_index_,
                  voxel_local_position |-> <<lx, ly, lz>>,
                  chunk |-> chunk_index]
        ELSE [voxel_id |-> 1, voxel_index |-> 0,
              voxel_local_position |-> <<0, 0, 0>>, chunk |-> -1]

get_voxel_id(wv, voxel_world_position_) ==
    LET cx == TruncDiv(voxel_world_position_[1], CHUNK_SIZE)
        cy == TruncDiv(voxel_world_position_[2], CHUNK_SIZE)
        cz == TruncDiv(voxel_world_position_[3], CHUNK_SIZE)
    IN  IF /\ 0 <= cx /\ cx < WORLD_WIDTH
           /\ 0 <= cy /\ cy < WORLD_HEIGHT
           /\ 0 <= cz /\ cz < WORLD_DEPTH
        THEN LET chunk_index == cx + (WORLD_WIDTH * cz) + (WORLD_AREA * cy)
                 lx == voxel_world_position_[1] - (cx * CHUNK_SIZE)
                 ly == voxel_world_position_[2] - (cy * CHUNK_SIZE)
                 lz == voxel_world_position_[3] - (cz * CHUNK_SIZE)
                 voxel_index_ == lx + (CHUNK_SIZE * lz) + (CHUNK_AREA * ly)
             IN  [voxel_id |-> wv[chunk_index][NumpyIndex(voxel_index_)],
                  voxel_index |-> voxel_index_,
                  voxel_local_position |-> <<lx, ly, lz>>,
                  chunk |-> chunk_index]
        ELSE [voxel_id |-> 0, voxel_index |-> 0,
              voxel_local_position |-> <<0, 0, 0>>, chunk |-> -1]

\* is_void: the voxel index it reads in the chunk get_chunk_index named
is_void_index(local_voxel_position) ==
    LET x == local_voxel_position[1]
        y == local_voxel_position[2]
        z == local_voxel_position[3]
    IN  (x % CHUNK_SIZE) + ((z % CHUNK_SIZE) * CHUNK_SIZE) + ((y % CHUNK_SIZE) * CHUNK_AREA)

\* after get_chunk_index(probe): is_void's voxel index for the same position,
\* taken relative to chunk 0
QueryVoidIndex ==
    /\ Len(probe_out) = 1
    /\ probe_out' = Append(probe_out, is_void_index(probe))
    /\ UNCHANGED <<voxels, buildVars, editVars, frustumVars, probe, packVars, meshVars, rayVars>>

\* then the ray caster's lookup of the same position
QueryVoxelId ==
    /\ Len(probe_out) = 2
    /\ probe_out' = Append(probe_out, get_voxel_id(voxels, probe))
    /\ UNCHANGED <<voxels, buildVars, editVars, frustumVars, probe, packVars, meshVars, rayVars>>

NextMap == QueryChunkIndex \/ QueryVoidIndex \/ QueryVoxelId
SpecMap == InitGrid /\ [][NextMap]_vars

\* the ray length the configuration sets
MAX_RAY_DISTANCE == 6

\* the resolution of the eye positions drawn: multiples of 1 / EyeGrid
EyeGrid == 2

\* the delta of an axis the ray does not move along
SENTINEL == 10000000

Abs(n) == IF n < 0 THEN -n ELSE n

\* glm.sign
Sign(n) == IF n > 0 THEN 1 ELSE IF n < 0 THEN -1 ELSE 0

\* forward * MAX_RAY_DISTANCE for the unit vectors forward that give whole numbers
Rays ==
    {r \in (-MAX_RAY_DISTANCE .. MAX_RAY_DISTANCE) \X (-MAX_RAY_DISTANCE .. MAX_RAY_DISTANCE)
            \X (-MAX_RAY_DISTANCE .. MAX_RAY_DISTANCE) :
        (r[1] * r[1]) + (r[2] * r[2]) + (r[3] * r[3]) = MAX_RAY_DISTANCE * MAX_RAY_DISTANCE}

\* the least number every non-zero component of every ray divides
RayLcm ==
    CHOOSE n \in 1 .. (MAX_RAY_DISTANCE * MAX_RAY_DISTANCE * MAX_RAY_DISTANCE) :
        /\ \A r \in Rays : \A a \in 1 .. 3 : r[a] # 0 => n % Abs(r[a]) = 0
        /\ \A m \in 1 .. n - 1 :
             \E r \in Rays : \E a \in 1 .. 3 : r[a] # 0 /\ m % Abs(r[a]) # 0

\* The ray parameters (floats in the code) are kept exactly, as whole multiples
\* of 1 / TUnit: 1.0 is TUnit.
TUnit == EyeGrid * RayLcm

\* glm.ivec3(x1, y1, z1): each coordinate cut toward zero
EyeVoxel(pos) ==
    << TruncDiv(pos[1], EyeGrid), TruncDiv(pos[2], EyeGrid), TruncDiv(pos[3], EyeGrid) >>

\* glm.fract(x1) = x1 - floor(x1), in units of 1 / EyeGrid
Fract(e) == e % EyeGrid

\* DeltaOf with no step for an axis the ray does not move along
DeltaOf_still(r) ==
    IF Sign(r) # 0
    THEN (IF TUnit \div Abs(r) < SENTINEL * TUnit THEN TUnit \div Abs(r) ELSE SENTINEL * TUnit)
    ELSE 0

\* delta_x = min(dx / (x2 - x1), 10000000.0) if dx != 0 else 10000000.0
DeltaOf(r) ==
    IF Sign(r) # 0
    THEN (IF TUnit \div Abs(r) < SENTINEL * TUnit THEN TUnit \div Abs(r) ELSE SENTINEL * TUnit)
    ELSE SENTINEL * TUnit

\* max_x = delta_x * (1.0 - fract(x1)) if dx > 0 else delta_x * fract(x1)
MaxOf(r, e) ==
    IF Sign(r) > 0 THEN (DeltaOf(r) \div EyeGrid) * (EyeGrid - Fract(e))
    ELSE (DeltaOf(r) \div EyeGrid) * Fract(e)

\* cast_ray up to its loop
CastRayBegin ==
    /\ rc_pc = "idle"
    /\ raised = ""
    /\ current_voxel_position' = EyeVoxel(position)
    /\ prev_voxel_position' = EyeVoxel(position)
    /\ self_voxel_id' = 0
    /\ voxel_normal' = <<0, 0, 0>>
    /\ step_direction' = -1
    /\ dxyz' = [a \in 1 .. 3 |-> Sign(forward_ray[a])]
    /\ delta' = [a \in 1 .. 3 |-> DeltaOf(forward_ray[a])]
    /\ max_t' = [a \in 1 .. 3 |-> MaxOf(forward_ray[a], position[a])]
    /\ rc_pc' = "loop"
    /\ UNCHANGED <<voxels, buildVars, editVars, frustumVars, gridVars, packVars, meshVars, position, forward_ray, returned,
                   self_voxel_index, voxel_local_position, chunk, voxel_world_position>>

\* while not ((max_x > 1.0) and (max_y > 1.0) and (max_z > 1.0))
LoopCond == ~(max_t[1] > TUnit /\ max_t[2] > TUnit /\ max_t[3] > TUnit)

\* AdvanceAxis taking the earlier axis on equal values
AdvanceAxis_early ==
    IF max_t[1] <= max_t[2]
    THEN (IF max_t[1] <= max_t[3] THEN 1 ELSE 3)
    ELSE (IF max_t[2] <= max_t[3] THEN 2 ELSE 3)

\* the axis (1: x, 2: y, 3: z) lines 213-230 advance
AdvanceAxis ==
    IF max_t[1] < max_t[2]
    THEN (IF max_t[1] < max_t[3] THEN 1 ELSE 3)
    ELSE (IF max_t[2] < max_t[3] THEN 2 ELSE 3)

\* the normal a hit reports with the sign of the ray kept
HitNormal_along(step_direction_, d_, normal_) ==
    IF step_direction_ = 0 THEN [normal_ EXCEPT ![1] = d_[1]]
    ELSE IF step_direction_ = 1 THEN [normal_ EXCEPT ![2] = d_[2]]
    ELSE [normal_ EXCEPT ![3] = d_[3]]

\* the normal a hit reports: the last stepped axis, against the ray
HitNormal(step_direction_, d_, normal_) ==
    IF step_direction_ = 0 THEN [normal_ EXCEPT ![1] = -d_[1]]
    ELSE IF step_direction_ = 1 THEN [normal_ EXCEPT ![2] = -d_[2]]
    ELSE [normal_ EXCEPT ![3] = -d_[3]]

\* one iteration of the loop
CastRayIterate ==
    /\ rc_pc = "loop"
    /\ LoopCond
    /\ LET result == get_voxel_id(voxels, current_voxel_position)
           a == AdvanceAxis
       IN  IF result.voxel_id # 0
           THEN /\ self_voxel_id' = result.voxel_id
                /\ self_voxel_index' = result.voxel_index
                /\ voxel_local_position' = result.voxel_local_position
                /\ chunk' = result.chunk
                /\ voxel_world_position' = current_voxel_position
                /\ voxel_normal' = HitNormal(step_direction, dxyz, voxel_normal)
                /\ returned' = <<TRUE>>
                /\ rc_pc' = "done"
                /\ UNCHANGED <<current_voxel_position, prev_voxel_position,
                               step_direction, max_t>>
           ELSE /\ current_voxel_position' =
                     [current_voxel_position EXCEPT ![a] = @ + dxyz[a]]
                /\ prev_voxel_position' = current_voxel_position
                /\ max_t' = [max_t EXCEPT ![a] = @ + delta[a]]
                /\ step_direction' = (IF a = 1 THEN 0 ELSE IF a = 2 THEN 1 ELSE 2)
                /\ UNCHANGED <<handlerVars, returned, rc_pc>>
    /\ UNCHANGED <<voxels, buildVars, editVars, frustumVars, gridVars, packVars, meshVars, position, forward_ray, dxyz, delta>>

\* the loop's exit: return False
CastRayEnd ==
    /\ rc_pc = "loop"
    /\ ~LoopCond
    /\ returned' = <<FALSE>>
    /\ rc_pc' = "done"
    /\ UNCHANGED <<voxels, buildVars, editVars, frustumVars, gridVars, packVars, meshVars, position, forward_ray,
                   current_voxel_position, prev_voxel_position, step_direction,
                   dxyz, delta, max_t, handlerVars>>

NextRay == CastRayBegin \/ CastRayIterate \/ CastRayEnd

\* the eye coordinates drawn: just below 0, a whole number, a whole number and
\* 1 / EyeGrid, and above the world
EyeCoords == {-1, 2 * EyeGrid, (2 * EyeGrid) + 1, (WORLD_HEIGHT * CHUNK_SIZE * EyeGrid) + 1}

Eyes == EyeCoords \X EyeCoords \X EyeCoords

\* the voxels on the three axis-parallel lines through the voxel (2, 2, 2)
Targets == {p \in Positions : Cardinality({a \in 1 .. 3 : p[a] = 2}) >= 2}

FullWorld == [c \in Chunks |-> [i \in VoxelIndices |-> 1]]

\* flat terrain of height 1
GroundWorld ==
    [c \in Chunks |-> [i \in VoxelIndices |-> IF PositionOf(c, i)[2] < 1 THEN 1 ELSE 0]]

RayWorlds ==
    {EmptyWorld, FullWorld, GroundWorld} \cup {WithVoxel(EmptyWorld, p, 1) : p \in Targets}

InitRay ==
    /\ voxels \in RayWorlds /\ GridIdle /\ PackIdle /\ MeshIdle /\ EditIdle /\ FrustumIdle /\ WorldBuilt
    /\ position \in Eyes /\ forward_ray \in Rays
    /\ CastIdle /\ HandlerInit
SpecRay == InitRay /\ [][NextRay]_vars

\* update calls cast_ray each frame and nothing interrupts its loop: a call
\* that can take a step takes it
SpecRayFair == SpecRay /\ WF_vars(NextRay)

\* ------------------------------------------------------------ edits
\* the id add_voxel writes
new_voxel_id == 1

\* the number of edits that write a voxel in one run of the model
MaxEdits == 2

\* self.chunks[index] on a Python list: a negative index counts from the end
ListIndex(index) == IF index < 0 THEN index + WORLD_VOLUME ELSE index

\* rebuild_adjacent_chunks: the positions it hands to rebuild_adjacent_chunk, in order
AdjacentPositions(l, w) ==
    (IF l[1] = 0 THEN << <<w[1] - 1, w[2], w[3]>> >>
     ELSE IF l[1] = CHUNK_SIZE - 1 THEN << <<w[1] + 1, w[2], w[3]>> >>
     ELSE << >>)
    \o (IF l[2] = 0 THEN << <<w[1], w[2] - 1, w[3]>> >>
        ELSE IF l[2] = CHUNK_SIZE - 1 THEN << <<w[1], w[2] + 1, w[3]>> >>
        ELSE << >>)
    \o (IF l[3] = 0 THEN << <<w[1], w[2], w[3] - 1>> >>
        ELSE IF l[3] = CHUNK_SIZE - 1 THEN << <<w[1], w[2], w[3] + 1>> >>
        ELSE << >>)

\* rebuild_adjacent_chunk on each position of ps in turn: the chunks whose mesh
\* is rebuilt, and the exception that stops the calls, if any
RECURSIVE rebuild_adjacent_chunk(_)
rebuild_adjacent_chunk(ps) ==
    IF ps = << >> THEN [log |-> << >>, raised |-> ""]
    ELSE LET index == get_chunk_index(Head(ps))
         IN  IF index = -1 THEN rebuild_adjacent_chunk(Tail(ps))
             ELSE IF ListIndex(index) \notin Chunks
                  THEN [log |-> << >>, raised |-> "IndexError"]
             ELSE LET rest == rebuild_adjacent_chunk(Tail(ps))
                  IN  [log |-> <<ListIndex(index)>> \o rest.log, raised |-> rest.raised]

\* mesh.rebuild() of each chunk of log: its vertex data replaced by a new build
\* of the buffer wv; a mesh is kept as what it was built from
rebuild(ms, log, wv, oob, uninit) ==
    [c \in Chunks |->
        IF \E k \in 1 .. Len(log) : log[k] = c
        THEN [voxels |-> wv, oob |-> oob, uninit |-> uninit]
        ELSE ms[c]]

\* get_vertex_data of a mesh: the words build_chunk_mesh returned for chunk c
get_vertex_data(c, mesh) ==
    build_chunk_mesh(mesh.voxels[c], ChunkPosition(c), mesh.voxels, mesh.oob, mesh.uninit)

\* add_voxel with no look at what the position next to the hit holds
is_free_any(result) == TRUE

\* add_voxel's test of the position next to the hit: "if not result[0]"
is_free(result) == result.voxel_id = 0

remove_voxel ==
    /\ rc_pc = "idle" /\ raised = "" /\ Len(history) < MaxEdits
    /\ called' = "remove_voxel"
    /\ IF self_voxel_id # 0
       THEN \E oob \in OobBytes, uninit \in UninitWords :
              LET i == NumpyIndex(self_voxel_index)
                  wv == [voxels EXCEPT ![chunk][i] = 0]
                  run == rebuild_adjacent_chunk(
                             AdjacentPositions(voxel_local_position, voxel_world_position))
                  log == <<chunk>> \o run.log
              IN  /\ voxels' = wv
                  /\ meshes' = rebuild(meshes, log, wv, oob, uninit)
                  /\ rebuilt' = log
                  /\ raised' = run.raised
                  /\ history' = Append(history,
                        [op |-> "remove", chunk |-> chunk, index |-> i,
                         id |-> voxels[chunk][i], pos |-> voxel_world_position,
                         voxels |-> voxels, mesh |-> meshes[chunk]])
                  /\ UNCHANGED is_empty
       ELSE /\ rebuilt' = << >>
            /\ UNCHANGED <<voxels, buildVars, is_empty, meshes, raised, history>>
    /\ UNCHANGED <<buildVars, gridVars, packVars, meshVars, rayVars, frustumVars>>

add_voxel ==
    /\ rc_pc = "idle" /\ raised = "" /\ Len(history) < MaxEdits
    /\ called' = "add_voxel"
    /\ LET target == Add3(voxel_world_position, voxel_normal)
           result == get_voxel_id(voxels, target)
       IN  IF self_voxel_id # 0 /\ is_free(result)
           THEN IF result.chunk = -1
                THEN \* chunk is the 0 get_voxel_id returned: chunk.voxels raises
                     /\ raised' = "AttributeError"
                     /\ rebuilt' = << >>
                     /\ UNCHANGED <<voxels, buildVars, is_empty, meshes, history>>
                ELSE \E oob \in OobBytes, uninit \in UninitWords :
                       LET i == NumpyIndex(result.voxel_index)
                           wv == [voxels EXCEPT ![result.chunk][i] = new_voxel_id]
                       IN  /\ voxels' = wv
                           /\ meshes' = rebuild(meshes, <<result.chunk>>, wv, oob, uninit)
                           /\ rebuilt' = <<result.chunk>>
                           /\ is_empty' = [is_empty EXCEPT ![result.chunk] = FALSE]
                           /\ history' = Append(history,
                                 [op |-> "add", chunk |-> result.chunk, index |-> i,
                                  id |-> new_voxel_id, pos |-> target,
                                  voxels |-> voxels,
                                  mesh |-> meshes[result.chunk]])
                                    /\ UNCHANGED raised
           ELSE /\ rebuilt' = << >>
                /\ UNCHANGED <<voxels, buildVars, is_empty, meshes, raised, history>>
    /\ UNCHANGED <<buildVars, gridVars, packVars, meshVars, rayVars, frustumVars>>

\* the next frame: cast_ray has returned and its locals are gone
NextFrame ==
    /\ rc_pc = "done" /\ raised = ""
    /\ rc_pc' = "idle" /\ returned' = << >>
    /\ current_voxel_position' = <<0, 0, 0>> /\ prev_voxel_position' = <<0, 0, 0>>
    /\ step_direction' = -1
    /\ dxyz' = <<0, 0, 0>> /\ delta' = <<0, 0, 0>> /\ max_t' = <<0, 0, 0>>
    /\ UNCHANGED <<voxels, buildVars, gridVars, packVars, meshVars, position, forward_ray,
                   handlerVars, editVars, frustumVars>>

NextEdit ==
    CastRayBegin \/ CastRayIterate \/ CastRayEnd \/ NextFrame \/ remove_voxel \/ add_voxel

\* build_voxels with every column h high: each chunk filled with its own id
FlatWorld(h) ==
    [c \in Chunks |-> [i \in VoxelIndices |->
        IF PositionOf(c, i)[2] < h THEN 1 + ChunkPosition(c)[2] ELSE 0]]

\* the starts drawn, <<terrain height, column (x, z) the player stands over,
\* looking down (-1) or up (1)>>: a top voxel inside a chunk, on a face shared
\* with the chunk above, beside or at a corner of three neighbours, on the faces
\* of the world, and a look at the sky
Starts ==
    { <<CHUNK_SIZE - 1, <<1, 1>>, -1>>,
      <<CHUNK_SIZE - 1, <<1, 1>>, 1>>,
      <<CHUNK_SIZE, <<1, 1>>, -1>>,
      <<CHUNK_SIZE + 1, <<1, 1>>, -1>>,
      <<CHUNK_SIZE - 1, <<CHUNK_SIZE, 1>>, -1>>,
      <<CHUNK_SIZE, <<CHUNK_SIZE - 1, CHUNK_SIZE - 1>>, -1>>,
      <<CHUNK_SIZE - 1, <<0, 1>>, -1>>,
      <<CHUNK_SIZE - 1, <<1, 0>>, -1>>,
      <<WORLD_HEIGHT * CHUNK_SIZE, <<1, 1>>, -1>> }

InitEdit ==
    /\ GridIdle /\ PackIdle /\ MeshIdle /\ CastIdle /\ HandlerInit /\ FrustumIdle /\ WorldBuilt
    /\ \E st \in Starts :
         /\ voxels = FlatWorld(st[1])
         /\ position = << (st[2][1] * EyeGrid) + 1, ((st[1] + 1) * EyeGrid) + 1,
                          (st[2][2] * EyeGrid) + 1 >>
         /\ forward_ray = <<0, st[3] * MAX_RAY_DISTANCE, 0>>
    /\ is_empty = [c \in Chunks |-> \A i \in VoxelIndices : voxels[c][i] = 0]
    /\ \E oob \in OobBytes, uninit \in UninitWords :
         meshes = [c \in Chunks |-> [voxels |-> voxels, oob |-> oob, uninit |-> uninit]]
    /\ rebuilt = << >> /\ raised = "" /\ called = "" /\ history = << >>
SpecEdit == InitEdit /\ [][NextEdit]_vars

\* ------------------------------------------------------------ frustum.py
\* Positions are whole multiples of 1 / PosUnit of a voxel, the components of
\* the camera's unit vectors whole multiples of 1 / DirUnit, so that a dot
\* product of the two is a whole multiple of 1 / LenUnit; cosines and sines are
\* whole multiples of 1 / TrigUnit, the frustum's factors of 1 / Milli.
PosUnit == 2
TrigUnit == 5
DirUnit == TrigUnit * TrigUnit
LenUnit == PosUnit * DirUnit
Milli == 1000

\* settings.py: 0.1 and 2000.0
NEAR == LenUnit \div 10
FAR == 2000 * LenUnit

\* the radius of a chunk's bounding sphere: 13/15 of the side, about half the
\* diagonal (0.866 of the side)
CHUNK_SPHERE_RADIUS == (13 * CHUNK_SIZE * LenUnit) \div 15

\* Frustum.__init__ with FOV_DEGREES = 50 and ASPECT_RATIO = 1600 / 900, in
\* thousandths: tan and 1 / cos of FOV_VERTICAL / 2 = 0.436332 (25 degrees) ...
tan_y == 466
factor_y == 1103
\* ... and of FOV_HORIZONTAL / 2 = atan(atan(0.436332) * 1.777778) = atan(0.731431)
tan_x == 731
factor_x == 1239

\* glm.perspective(FOV_VERTICAL, ASPECT_RATIO, NEAR, FAR): the tangent of half
\* the horizontal angle of the projection, tan(0.436332) * 1.777778 = 0.828991
tan_h == 829

Dot(a, b) == (a[1] * b[1]) + (a[2] * b[2]) + (a[3] * b[3])

Cross(a, b) ==
    << (a[2] * b[3]) - (a[3] * b[2]),
       (a[3] * b[1]) - (a[1] * b[3]),
       (a[1] * b[2]) - (a[2] * b[1]) >>

\* glm.normalize of a vector whose length is a whole number: in 1 / DirUnit
Normalize(v) ==
    LET n == CHOOSE k \in 1 .. (DirUnit * DirUnit) : k * k = Dot(v, v)
    IN  [a \in 1 .. 3 |-> (v[a] * DirUnit) \div n]

\* chunk.py: center = (position + 0.5) * CHUNK_SIZE
Center(c) ==
    [a \in 1 .. 3 |-> (((2 * ChunkPosition(c)[a]) + 1) * CHUNK_SIZE * PosUnit) \div 2]

\* the depth test without the sphere's radius
DepthTest_bare(sz) == NEAR <= sz /\ sz <= FAR

\* is_on_frustum: the test against the near and far planes
DepthTest(sz) ==
    (NEAR - CHUNK_SPHERE_RADIUS) <= sz /\ sz <= (FAR + CHUNK_SPHERE_RADIUS)

\* a side test that allows everything
SideTest_open(s_, sz, factor, tan) == TRUE

\* is_on_frustum: the test against a pair of side planes, "-distance <= s <=
\* distance" with distance = factor * CHUNK_SPHERE_RADIUS + sz * tan
SideTest(s_, sz, factor, tan) ==
    LET distance == (factor * CHUNK_SPHERE_RADIUS) + (sz * tan)
    IN  (-distance) <= (s_ * Milli) /\ (s_ * Milli) <= distance

is_on_frustum(cam, center) ==
    LET sphere_vector == [a \in 1 .. 3 |-> center[a] - cam.position[a]]
        sz == Dot(sphere_vector, cam.forward)
        sy == Dot(sphere_vector, cam.up)
        sx == Dot(sphere_vector, cam.right)
    IN  IF ~DepthTest(sz) THEN FALSE
        ELSE IF ~SideTest(sy, sz, factor_y, tan_y) THEN FALSE
        ELSE IF ~SideTest(sx, sz, factor_x, tan_x) THEN FALSE
        ELSE TRUE

\* the angles drawn, as <<cosine, sine>> in 1 / TrigUnit
Yaws == { <<0, -5>>, <<5, 0>>, <<0, 5>>, <<-5, 0>>, <<3, 4>>, <<-4, 3>>, <<4, -3>> }
Pitches == { <<5, 0>>, <<4, 3>>, <<4, -3>>, <<3, -4>> }

\* camera.py update_vectors for the yaw and the pitch given
update_vectors(yaw, pitch) ==
    LET f0 == << yaw[1] * pitch[1], TrigUnit * pitch[2], yaw[2] * pitch[1] >>
        f == Normalize(f0)
        r == Normalize(Cross(f, <<0, DirUnit, 0>>))
        u == Normalize(Cross(r, f))
    IN  [forward |-> f, right |-> r, up |-> u]

\* the orientations the camera is turned to
Orientations == { update_vectors(yaw, pitch) : yaw \in Yaws, pitch \in Pitches }

\* where the camera is taken: a chunk's centre and places away from the centre
\* of chunk 0, by whole voxels
CamOffsets ==
    { <<0, 0, 0>>, <<0, 0, 2>>, <<0, 0, 3>>, <<2, 0, 0>>, <<0, 3, 0>>,
      <<0, 0, 100>>, <<70, 0, 100>>, <<80, 0, 100>>, <<90, 0, 100>>,
      <<0, 40, 100>>, <<0, 50, 100>>, <<80, 40, 100>>,
      <<0, 0, 2002>>, <<0, 0, 2003>> }
CamPositions ==
    { Center(c) : c \in Chunks }
      \union { [a \in 1 .. 3 |-> Center(0)[a] + (o[a] * PosUnit)] : o \in CamOffsets }

\* player.py / camera.py: the moves and the turns of a frame, then update()
CameraMove ==
    /\ \E p \in CamPositions : camera' = [camera EXCEPT !.position = p]
    /\ on_frustum' = << >>
    /\ UNCHANGED <<voxels, buildVars, gridVars, packVars, meshVars, rayVars, editVars>>

CameraTurn ==
    /\ \E o \in Orientations :
         camera' = [camera EXCEPT !.forward = o.forward, !.right = o.right, !.up = o.up]
    /\ on_frustum' = << >>
    /\ UNCHANGED <<voxels, buildVars, gridVars, packVars, meshVars, rayVars, editVars>>

\* chunk.py render: the chunk asks the frustum
Render ==
    /\ \E c \in Chunks : on_frustum' = <<c, is_on_frustum(camera, Center(c))>>
    /\ UNCHANGED <<voxels, buildVars, gridVars, packVars, meshVars, rayVars, editVars, camera>>

NextFrustum == CameraMove \/ CameraTurn \/ Render

\* Camera.__init__ at PLAYER_POSITION
InitFrustum ==
    /\ voxels = EmptyWorld /\ GridIdle /\ PackIdle /\ MeshIdle /\ RayIdle /\ EditIdle /\ WorldBuilt
    /\ camera = [ position |-> << WORLD_WIDTH * (CHUNK_SIZE \div 2) * PosUnit,
                                  WORLD_HEIGHT * CHUNK_SIZE * PosUnit,
                                  WORLD_WIDTH * (CHUNK_SIZE \div 2) * PosUnit >>,
                  forward |-> <<0, 0, -DirUnit>>,
                  right |-> <<DirUnit, 0, 0>>,
                  up |-> <<0, DirUnit, 0>> ]
    /\ on_frustum = << >>
SpecFrustum == InitFrustum /\ [][NextFrustum]_vars

\* ------------------------------------------------------------ world.py
\* the values random.randrange(1, 100) may give: either end
RandomNumbers == {1, 99}

\* the world_height maps drawn: flat ones from no terrain to above the world,
\* and a slope
Terrains ==
    {[col \in Columns |-> h] : h \in {0, 1, CHUNK_SIZE, CHUNK_SIZE + 1,
                                       WORLD_HEIGHT * CHUNK_SIZE, (WORLD_HEIGHT * CHUNK_SIZE) + 2}}
    \cup {[col \in Columns |-> col[1] + col[2]]}

\* Chunk.build_voxels with the y stride on z and the z stride on y
build_voxels_yz(position_, terrain_, random_number) ==
    LET cx == position_[1] * CHUNK_SIZE
        cy == position_[2] * CHUNK_SIZE
        cz == position_[3] * CHUNK_SIZE
        local_height(x, z) ==
            LET world_height == terrain_[<<x + cx, z + cz>>]
            IN  IF world_height - cy < CHUNK_SIZE THEN world_height - cy ELSE CHUNK_SIZE
    IN  [voxel_index \in VoxelIndices |->
            IF \E x \in 0 .. CHUNK_SIZE - 1, z \in 0 .. CHUNK_SIZE - 1 :
                  \E y \in 0 .. local_height(x, z) - 1 :
                     voxel_index = x + (CHUNK_SIZE * y) + (CHUNK_AREA * z)
            THEN random_number
            ELSE 0]

\* Chunk.build_voxels: zeros, and random_number in every column up to its
\* local height
build_voxels(position_, terrain_, random_number) ==
    LET cx == position_[1] * CHUNK_SIZE
        cy == position_[2] * CHUNK_SIZE
        cz == position_[3] * CHUNK_SIZE
        local_height(x, z) ==
            LET world_height == terrain_[<<x + cx, z + cz>>]
            IN  IF world_height - cy < CHUNK_SIZE THEN world_height - cy ELSE CHUNK_SIZE
    IN  [voxel_index \in VoxelIndices |->
            IF \E x \in 0 .. CHUNK_SIZE - 1, z \in 0 .. CHUNK_SIZE - 1 :
                  \E y \in 0 .. local_height(x, z) - 1 :
                     voxel_index = x + (CHUNK_SIZE * z) + (CHUNK_AREA * y)
            THEN random_number
            ELSE 0]

\* the (x, y, z) of iteration i of "for x / for y / for z" in build_chunks
BuildPosition(i) ==
    << i \div (WORLD_HEIGHT * WORLD_DEPTH), (i \div WORLD_DEPTH) % WORLD_HEIGHT, i % WORLD_DEPTH >>

\* one iteration of build_chunks: the chunk made, put in its slot, its voxels
\* built and stored in the world's buffer
BuildChunk ==
    /\ build_i < WORLD_VOLUME
    /\ \E random_number \in RandomNumbers :
         LET xyz == BuildPosition(build_i)
             chunk_index == ChunkSlot(xyz[1], xyz[2], xyz[3])
             built == build_voxels(xyz, terrain, random_number)
         IN  /\ chunks' = [chunks EXCEPT ![chunk_index] = xyz]
             /\ voxels' = [voxels EXCEPT ![chunk_index] = built]
             /\ is_empty' = (chunk_index :> (\A i \in VoxelIndices : built[i] = 0)) @@ is_empty
    /\ build_i' = build_i + 1
    /\ UNCHANGED <<terrain, gridVars, packVars, meshVars, rayVars, frustumVars,
                   meshes, rebuilt, raised, called, history>>

\* World.__init__ before build_chunks: no chunk in any slot, the buffer as
\* np.empty left it
InitBuild ==
    /\ GridIdle /\ PackIdle /\ MeshIdle /\ RayIdle /\ EditIdle /\ FrustumIdle
    /\ chunks = [c \in Chunks |-> << >>]
    /\ build_i = 0
    /\ terrain \in Terrains
    /\ \E garbage \in OobBytes : voxels = [c \in Chunks |-> [i \in VoxelIndices |-> garbage]]
SpecBuild == InitBuild /\ [][BuildChunk]_vars

\* ------------------------------------------------------------ reading words
\* (w >> shift) & (2^width - 1) of a word w, width <= 8
Field(w, shift, width) ==
    IF shift >= 16 THEN (w[1] \div Pow2(shift - 16)) % Pow2(width)
    ELSE ((w[2] \div Pow2(shift)) + ((w[1] % Pow2(width)) * Pow2(16 - shift))) % Pow2(width)

\* the word w is below 2^32
IsUInt32(w) == w[1] \in 0 .. Half - 1 /\ w[2] \in 0 .. Half - 1

\* the mesh built last holds the quad of face f of the voxel at local l with id:
\* a word with that face_id and id at the quad's corner v0
Emitted(l, f, id) ==
    \E i \in 1 .. Len(vertex_data) :
        /\ Field(vertex_data[i], 3, 3) = Faces[f].face_id
        /\ Field(vertex_data[i], 6, 8) = id
        /\ Field(vertex_data[i], 26, 6) = l[1] + Faces[f].v[1][1]
        /\ Field(vertex_data[i], 20, 6) = l[2] + Faces[f].v[1][2]
        /\ Field(vertex_data[i], 14, 6) = l[3] + Faces[f].v[1][3]

\* local position of voxel index i
LocalOf(i) == << i % CHUNK_SIZE, i \div CHUNK_AREA, (i \div CHUNK_SIZE) % CHUNK_SIZE >>

Built == mesh_chunk # -1

\* the solid voxels (indices) of the chunk meshed last
SolidOfBuilt == {i \in VoxelIndices : voxels[mesh_chunk][i] # 0}

\* the world position one step out of face f of voxel i of the chunk meshed last
NeighbourOf(i, f) == Add3(PositionOf(mesh_chunk, i), Faces[f].n)

\* ------------------------------------------------------------ claims

\* C2 (as stated): for every world voxel coordinate outside the world bounds the
\* meshing predicate treats the position as void, so a solid voxel on the outer
\* face of the world has its outward face emitted by build_chunk_mesh.
OrigC2 ==
    Built =>
      \A i \in SolidOfBuilt : \A f \in 1 .. 6 :
         ~InWorld(NeighbourOf(i, f)) =>
            /\ is_void(Add3(LocalOf(i), Faces[f].n), NeighbourOf(i, f), voxels, mesh_oob)
            /\ Emitted(LocalOf(i), f, voxels[mesh_chunk][i])

\* C2 (amended): for every world voxel coordinate whose x is outside the world
\* while y and z are inside, the meshing predicate answers "not void", so a
\* solid voxel on the low-x or high-x outer face of the world does not have its
\* outward face emitted by build_chunk_mesh.
InvC2 ==
    Built =>
      \A i \in SolidOfBuilt : \A f \in 1 .. 6 :
         LET p == NeighbourOf(i, f)
         IN  (p[1] \notin 0 .. (WORLD_WIDTH * CHUNK_SIZE) - 1) =>
               /\ ~is_void(Add3(LocalOf(i), Faces[f].n), p, voxels, mesh_oob)
               /\ ~Emitted(LocalOf(i), f, voxels[mesh_chunk][i])

\* C2 witness: a mesh was built for a chunk with a solid voxel in the lowest x
\* layer of the world, and it holds quads of other faces
WitC2 ==
    /\ Built
    /\ \E i \in SolidOfBuilt : NeighbourOf(i, 4)[1] = -1
    /\ Len(vertex_data) > 6

\* C4 (as stated): build_chunk_mesh returns exactly the words it wrote: the
\* length of the returned array is 6 times the number of (solid voxel, face)
\* pairs of the chunk whose neighbour across that face is void; a chunk holding
\* a single isolated solid voxel yields exactly 36 words.
VisibleFaces ==
    {<<i, f>> \in SolidOfBuilt \X (1 .. 6) :
        is_void(Add3(LocalOf(i), Faces[f].n), NeighbourOf(i, f), voxels, mesh_oob)}

OrigC4 == Built => Len(vertex_data) = 6 * Cardinality(VisibleFaces)

\* C5 (as stated): for a chunk with no solid voxel build_chunk_mesh returns a
\* zero-length output.
OrigC5 == (Built /\ SolidOfBuilt = {}) => Len(vertex_data) = 0

\* C6: a face of a solid voxel is emitted if and only if the voxel one step
\* along the face's normal is empty, the neighbour being looked up in the world
\* buffer also when it lies in an adjacent chunk; so a solid voxel whose six
\* neighbours are all solid contributes no words.
InvC6 ==
    Built =>
      \A i \in SolidOfBuilt :
         /\ \A f \in 1 .. 6 :
              InWorld(NeighbourOf(i, f)) =>
                 (Emitted(LocalOf(i), f, voxels[mesh_chunk][i])
                    <=> VoxelAt(voxels, NeighbourOf(i, f)) = 0)
         /\ (\A f \in 1 .. 6 : /\ InWorld(NeighbourOf(i, f))
                               /\ VoxelAt(voxels, NeighbourOf(i, f)) # 0)
              => \A f \in 1 .. 6 : ~Emitted(LocalOf(i), f, voxels[mesh_chunk][i])

\* C6 witness: the chunk meshed holds a solid voxel whose six neighbours are all
\* solid, one of them in another chunk, and only the slot after the written
\* words separates the neighbours' quads from the end of the array
WitC6 ==
    /\ Built
    /\ \E i \in SolidOfBuilt :
         /\ \A f \in 1 .. 6 : /\ InWorld(NeighbourOf(i, f))
                              /\ VoxelAt(voxels, NeighbourOf(i, f)) # 0
         /\ \E f \in 1 .. 6 : \E a \in 1 .. 3 :
              Add3(LocalOf(i), Faces[f].n)[a] \notin 0 .. CHUNK_SIZE - 1
         /\ \A f \in 1 .. 6 : ~Emitted(LocalOf(i), f, voxels[mesh_chunk][i])
    /\ Len(vertex_data) > 1

\* C3 (as stated): get_chunk_index returns -1 if and only if at least one chunk
\* coordinate lies outside the world's dimensions; otherwise it returns
\* cx + WORLD_WIDTH*cz + WORLD_AREA*cy, which is in 0 .. WORLD_VOLUME-1.
OrigC3 ==
    probe_out # << >> =>
      LET cx == probe[1] \div CHUNK_SIZE
          cy == probe[2] \div CHUNK_SIZE
          cz == probe[3] \div CHUNK_SIZE
          inside == /\ cx \in 0 .. WORLD_WIDTH - 1
                    /\ cy \in 0 .. WORLD_HEIGHT - 1
                    /\ cz \in 0 .. WORLD_DEPTH - 1
      IN  /\ (probe_out[1] = -1) <=> ~inside
          /\ inside => /\ probe_out[1] = cx + (WORLD_WIDTH * cz) + (WORLD_AREA * cy)
                       /\ probe_out[1] \in Chunks

Examining == rc_pc = "loop" /\ LoopCond

\* cast_ray returned a hit
Hit == rc_pc = "done" /\ returned = <<TRUE>>

\* p lies in no chunk even after the division that cuts toward zero
FarOutside(p) ==
    \/ p[1] >= WORLD_WIDTH * CHUNK_SIZE \/ p[1] <= -CHUNK_SIZE
    \/ p[2] >= WORLD_HEIGHT * CHUNK_SIZE \/ p[2] <= -CHUNK_SIZE
    \/ p[3] >= WORLD_DEPTH * CHUNK_SIZE \/ p[3] <= -CHUNK_SIZE

OneStep(p, q) ==
    \E a \in 1 .. 3 :
        /\ Abs(q[a] - p[a]) = 1
        /\ \A b \in (1 .. 3) \ {a} : q[b] = p[b]

\* the voxel that contains the eye
FloorVoxel(pos) == << pos[1] \div EyeGrid, pos[2] \div EyeGrid, pos[3] \div EyeGrid >>

\* C8 as stated: the first voxel examined is the one containing the eye, each
\* next one is one voxel away from the previous one along one axis, and the
\* ray stops, with a hit there, at the first examined voxel that is occupied.
OrigC8 ==
    [][ /\ rc_pc = "idle" => current_voxel_position' = FloorVoxel(position)
        /\ (rc_pc = "loop" /\ rc_pc' = "loop")
             => /\ get_voxel_id(voxels, current_voxel_position).voxel_id = 0
                /\ OneStep(current_voxel_position, current_voxel_position')
        /\ (rc_pc = "loop" /\ returned' = <<TRUE>>)
             => /\ voxel_world_position' = current_voxel_position
                /\ get_voxel_id(voxels, current_voxel_position).voxel_id # 0 ]_vars

\* C9: a hit reported after at least one step has the normal that points from
\* the hit voxel back to the voxel examined before it: a unit vector on the one
\* axis the last step moved along, with the sign opposite to the ray's.
InvC9 ==
    (Hit /\ step_direction # -1)
        => \E a \in 1 .. 3 :
              /\ voxel_world_position[a] - prev_voxel_position[a] = Sign(forward_ray[a])
              /\ Sign(forward_ray[a]) # 0
              /\ \A b \in (1 .. 3) \ {a} : voxel_world_position[b] = prev_voxel_position[b]
              /\ voxel_normal = [b \in 1 .. 3 |-> IF b = a THEN -Sign(forward_ray[a]) ELSE 0]

\* a hit after a step along y, on a ray that moves along all three axes
WitC9 ==
    /\ Hit /\ step_direction = 1
    /\ \A a \in 1 .. 3 : forward_ray[a] # 0
    /\ voxel_normal = <<0, -Sign(forward_ray[2]), 0>>

\* the ray runs along one axis
AxisRay == Cardinality({a \in 1 .. 3 : forward_ray[a] # 0}) = 1

RayAxis == CHOOSE a \in 1 .. 3 : forward_ray[a] # 0

\* p is on the ray's line, at or ahead of the voxel containing the eye
OnRay(p) ==
    /\ \A b \in (1 .. 3) \ {RayAxis} : p[b] = FloorVoxel(position)[b]
    /\ (p[RayAxis] - FloorVoxel(position)[RayAxis]) * Sign(forward_ray[RayAxis]) >= 0

\* voxel p of the ray's line lies, all of it, within MAX_RAY_DISTANCE of the eye
WithinReach(p) ==
    IF forward_ray[RayAxis] > 0
    THEN ((p[RayAxis] + 1) * EyeGrid) - position[RayAxis] <= MAX_RAY_DISTANCE * EyeGrid
    ELSE position[RayAxis] - (p[RayAxis] * EyeGrid) <= MAX_RAY_DISTANCE * EyeGrid

\* the first solid voxel of the world on the ray's line
FirstSolid(p) ==
    /\ p \in Positions /\ OnRay(p) /\ VoxelAt(voxels, p) # 0
    /\ \A q \in Positions :
         (OnRay(q) /\ VoxelAt(voxels, q) # 0)
            => (q[RayAxis] - p[RayAxis]) * Sign(forward_ray[RayAxis]) >= 0

\* C10 as stated: an axis-aligned ray with a solid voxel on its line within the
\* maximum distance, and only empty voxels before it, returns a hit at that
\* voxel with the normal opposite to the ray.
OrigC10 ==
    (rc_pc = "done" /\ AxisRay)
        => \A p \in Positions :
              (FirstSolid(p) /\ WithinReach(p) /\ p # FloorVoxel(position))
                 => /\ returned = <<TRUE>>
                    /\ voxel_world_position = p
                    /\ voxel_normal = [b \in 1 .. 3 |-> -Sign(forward_ray[b])]

\* C11: in a world with no solid voxel cast_ray returns False and leaves
\* voxel_id at 0, whatever the eye and the direction.
InvC11 ==
    (voxels = EmptyWorld /\ rc_pc = "done")
        => /\ returned = <<FALSE>>
           /\ self_voxel_id = 0

\* a ray cast in the empty world from inside the world ended outside of it
WitC11 ==
    /\ voxels = EmptyWorld /\ rc_pc = "done" /\ returned = <<FALSE>>
    /\ InWorld(EyeVoxel(position))
    /\ ~InWorld(current_voxel_position)

\* C12: every call of cast_ray returns; once the parameters of all three axes
\* exceed 1.0 the loop's next step is the return of "no hit"; and the loop
\* never advances an axis whose parameter exceeds 1.0.
InvC12 ==
    /\ <>(rc_pc = "done")
    /\ [][ /\ (rc_pc = "loop" /\ ~LoopCond) => (rc_pc' = "done" /\ returned' = <<FALSE>>)
           /\ \A a \in 1 .. 3 :
                (rc_pc = "loop" /\ max_t'[a] # max_t[a]) => max_t[a] <= TUnit ]_vars

\* a ray along one axis from an eye with whole coordinates returned "no hit"
\* after steps along the axes it does not move on
WitC12 ==
    /\ rc_pc = "done" /\ returned = <<FALSE>>
    /\ AxisRay
    /\ \A a \in 1 .. 3 : Fract(position[a]) = 0
    /\ \A a \in 1 .. 3 : max_t[a] > TUnit
    /\ \E a \in 1 .. 3 : forward_ray[a] = 0 /\ max_t[a] = SENTINEL * TUnit

\* ------------------------------------------------------------ edit claims
\* the step is an edit of kind op that wrote a voxel
Edited(op) ==
    /\ Len(history') = Len(history) + 1
    /\ history'[Len(history')].op = op

\* the chunk of the world that holds the position p
ChunkOf(p) == ChunkSlot(p[1] \div CHUNK_SIZE, p[2] \div CHUNK_SIZE, p[3] \div CHUNK_SIZE)

\* the faces of its chunk the voxel at p sits on, as steps out of the chunk
BorderSteps(p) ==
    { st \in Steps6 : \E a \in 1 .. 3 :
         /\ st[a] # 0
         /\ (p[a] % CHUNK_SIZE) = (IF st[a] < 0 THEN 0 ELSE CHUNK_SIZE - 1) }

\* the chunks that share with the chunk of p a face the voxel at p sits on
AcrossFaces(p) == { ChunkOf(Add3(p, st)) : st \in {t \in BorderSteps(p) : InWorld(Add3(p, t))} }

\* C13 as stated: remove_voxel on a targeted voxel sets it to 0 and rebuilds the
\* owning chunk once and then, once each, exactly the chunks across the chunk
\* faces the voxel sits on (none for a voxel inside its chunk), and raises nothing.
OrigC13 ==
    [][ Edited("remove") =>
          /\ VoxelAt(voxels', voxel_world_position) = 0
          /\ raised' = ""
          /\ rebuilt' # << >>
          /\ rebuilt'[1] = ChunkOf(voxel_world_position)
          /\ { rebuilt'[k] : k \in 2 .. Len(rebuilt') } = AcrossFaces(voxel_world_position)
          /\ Len(rebuilt') = 1 + Cardinality(AcrossFaces(voxel_world_position)) ]_vars

\* the last two edits are a removal and then an addition that puts the removed
\* id back at the removed position
PutBack ==
    /\ Len(history) >= 2
    /\ LET rm == history[Len(history) - 1]
           ad == history[Len(history)]
       IN  /\ rm.op = "remove" /\ ad.op = "add"
           /\ ad.pos = rm.pos /\ ad.id = rm.id

\* C14 as stated: after a removal and then an addition of the same id at the
\* same position the voxel buffer is what it was before the removal and the
\* owning chunk's vertex data is word for word what it was before the removal.
OrigC14 ==
    PutBack =>
        LET rm == history[Len(history) - 1]
        IN  /\ voxels = rm.voxels
            /\ get_vertex_data(rm.chunk, meshes[rm.chunk]) = get_vertex_data(rm.chunk, rm.mesh)

\* the position add_voxel writes to: next to the hit voxel, on the side of the normal
AddTarget == Add3(voxel_world_position, voxel_normal)

\* a step that is a call of an edit operation
EditCall == rc_pc = "idle" /\ rc_pc' = "idle"

\* C15: an edit operation called with no voxel targeted, and add_voxel called
\* when the position next to the hit already holds a voxel, changes no voxel, no
\* is_empty flag and no mesh, and raises nothing.
InvC15 ==
    [][ ( /\ EditCall
          /\ \/ self_voxel_id = 0
             \/ /\ called' = "add_voxel"
                /\ InWorld(AddTarget)
                /\ VoxelAt(voxels, AddTarget) # 0 )
        => ( /\ voxels' = voxels /\ is_empty' = is_empty /\ meshes' = meshes
             /\ rebuilt' = << >> /\ raised' = "" ) ]_vars

\* add_voxel was called on a targeted voxel whose neighbour on the side of the
\* normal was occupied, and rebuilt nothing
WitC15 ==
    /\ rc_pc = "idle" /\ called = "add_voxel" /\ rebuilt = << >> /\ raised = ""
    /\ self_voxel_id # 0
    /\ InWorld(AddTarget) /\ VoxelAt(voxels, AddTarget) # 0

\* C16 as stated: after world generation and after any edits, a chunk's is_empty
\* flag is true exactly when none of its voxels is non-zero.
OrigC16 ==
    \A c \in Chunks : is_empty[c] <=> (\A i \in VoxelIndices : voxels[c][i] = 0)

\* the neighbour chunks that hold a voxel right next to the voxel at p, across
\* a chunk face p sits on
TouchedNeighbours(wv, p) ==
    { ChunkOf(Add3(p, st)) :
        st \in { t \in BorderSteps(p) : InWorld(Add3(p, t)) /\ VoxelAt(wv, Add3(p, t)) # 0 } }

\* C17 as stated: an edit that changes a voxel rebuilds the mesh of the owning
\* chunk and of every neighbour chunk that holds a voxel right next to the
\* changed one across a shared chunk face, for additions as for removals.
OrigC17 ==
    [][ (Len(history') = Len(history) + 1 /\ voxels' # voxels) =>
           LET ed == history'[Len(history')]
           IN  \A c \in {ed.chunk} \union TouchedNeighbours(voxels, ed.pos) :
                  \E k \in 1 .. Len(rebuilt') : rebuilt'[k] = c ]_vars

\* ------------------------------------------------------------ frustum claims
\* the vector from the camera to the centre of the chunk asked about, on the
\* camera's right, up and forward
AskedChunk == on_frustum[1]
Visible == on_frustum[2]
ToCentre == [a \in 1 .. 3 |-> Center(AskedChunk)[a] - camera.position[a]]
Sx == Dot(ToCentre, camera.right)
Sy == Dot(ToCentre, camera.up)
Sz == Dot(ToCentre, camera.forward)

DepthPasses ==
    (NEAR - CHUNK_SPHERE_RADIUS) <= Sz /\ Sz <= (FAR + CHUNK_SPHERE_RADIUS)
VerticalPasses ==
    Abs(Sy) * Milli <= (factor_y * CHUNK_SPHERE_RADIUS) + (Sz * tan_y)
HorizontalPasses ==
    Abs(Sx) * Milli <= (factor_x * CHUNK_SPHERE_RADIUS) + (Sz * tan_x)

\* C18: is_on_frustum answers true exactly when the depth test, the vertical
\* test and the horizontal test all pass, so a chunk with |sx| beyond
\* factor_x * r + sz * tan_x is culled and the order of the tests is immaterial.
InvC18 ==
    on_frustum # << >> =>
        (Visible <=> (HorizontalPasses /\ VerticalPasses /\ DepthPasses))

\* a chunk in depth range and inside the vertical bounds is culled for its |sx|
WitC18 ==
    /\ on_frustum # << >>
    /\ DepthPasses /\ VerticalPasses /\ ~HorizontalPasses
    /\ Sy # 0
    /\ ~Visible

\* C19: a chunk whose centre is the camera's position is visible whatever the
\* orientation.
InvC19 ==
    (on_frustum # << >> /\ Center(AskedChunk) = camera.position) => Visible

\* the camera sits on a chunk's centre, looks up and sideways, and sees it
WitC19 ==
    /\ on_frustum # << >>
    /\ Center(AskedChunk) = camera.position
    /\ \A a \in 1 .. 3 : camera.forward[a] # 0
    /\ Visible

\* the centre of the chunk asked about lies inside the frustum of the
\* projection: between the near and far planes and within the vertical and the
\* horizontal angle (a thousandth inside the latter)
CentreInView ==
    /\ NEAR <= Sz /\ Sz <= FAR
    /\ Abs(Sy) * Milli <= Sz * tan_y
    /\ Abs(Sx) * Milli <= Sz * (tan_h - 1)

\* C20 as stated, for the chunks whose sphere meets the frustum because its
\* centre is inside: such a chunk is reported visible.
OrigC20 ==
    (on_frustum # << >> /\ CentreInView) => Visible

\* ------------------------------------------------------------ mapping claims
\* C21 as stated: the mesh builder (get_chunk_index, is_void) and the ray caster
\* (get_voxel_id) agree for every position on whether it is in the world, and
\* for a position in the world both address chunk floor(p / S), as
\* cx + W*cz + W*D*cy, and voxel p mod S, as x + S*z + S*S*y.
OrigC21 ==
    Len(probe_out) = 3 =>
        LET chunk_index == probe_out[1]
            voxel_index == probe_out[2]
            result == probe_out[3]
        IN  /\ (chunk_index = -1) <=> (result.chunk = -1)
            /\ InWorld(probe) =>
                 /\ chunk_index = ChunkOf(probe) /\ result.chunk = ChunkOf(probe)
                 /\ voxel_index = VoxelIndex(probe[1] % CHUNK_SIZE, probe[2] % CHUNK_SIZE,
                                             probe[3] % CHUNK_SIZE)
                 /\ result.voxel_index = voxel_index

\* C22 as stated: no call of an edit operation raises, whatever face of the
\* world the targeted voxel lies on, and every chunk a removal rebuilds besides
\* the owning one holds the position next to the voxel across a chunk face;
\* for a position outside the world nothing is rebuilt.
OrigC22 ==
    [][ EditCall =>
          /\ raised' = ""
          /\ Edited("remove") =>
               \A k \in 2 .. Len(rebuilt') : rebuilt'[k] \in AcrossFaces(voxel_world_position)
          /\ Edited("add") => rebuilt' = << ChunkOf(AddTarget) >> /\ InWorld(AddTarget) ]_vars

\* ------------------------------------------------------------ quads
\* the quads of the mesh built last: six words each, before the last slot
Quads == 0 .. ((Len(vertex_data) - 1) \div 6) - 1

\* word j (1 .. 6) of quad q
QuadWord(q, j) == vertex_data[(6 * q) + j]

\* the x, y, z a word carries
WordPos(w) == << Field(w, 26, 6), Field(w, 20, 6), Field(w, 14, 6) >>

\* the face (index into Faces) the words of quad q carry
QuadFace(q) == Field(QuadWord(q, 1), 3, 3) + 1

Least(ns) == CHOOSE n \in ns : \A m \in ns : n <= m

\* the positions the six words of quad q carry
QuadPos(q) == [j \in 1 .. 6 |-> WordPos(QuadWord(q, j))]

\* the local position of the voxel whose face F has its corners at pos: the
\* lowest corner, taken back by the lowest corner of the face
QuadVoxel(F, pos) ==
    [a \in 1 .. 3 |->
        Least({pos[j][a] : j \in 1 .. 6}) - Least({F.v[k][a] : k \in 1 .. 4})]

\* the world position of a local position of the chunk meshed last
WorldOf(l) ==
    LET cp == ChunkPosition(mesh_chunk)
    IN  << l[1] + (cp[1] * CHUNK_SIZE), l[2] + (cp[2] * CHUNK_SIZE), l[3] + (cp[3] * CHUNK_SIZE) >>

\* the positions of ring whose voxel touches the lattice point c
Touching(ring, c) == {s \in ring : \A a \in 1 .. 3 : c[a] - s[a] \in {0, 1}}

IsSolid(p) == InWorld(p) /\ VoxelAt(voxels, p) # 0
IsEmpty(p) == InWorld(p) /\ VoxelAt(voxels, p) = 0

\* the ao_id and the flip_id a word carries
AoOf(w) == Field(w, 1, 2)
FlipOf(w) == Field(w, 0, 1)

\* ------------------------------------------------------------ mesh claims
\* C23 (as stated): for every emitted face, each of the four ambient-occlusion
\* values packed into the quad's vertices v0..v3 equals the number of solid
\* voxels among the 3 samples (two edge neighbours and the diagonal one, of the
\* 8 in-plane neighbours of the position just outside the face) that touch
\* that vertex's corner, and is therefore in 0..3.
OrigC23 ==
    Built =>
      \A q \in Quads :
         \A F \in {Faces[QuadFace(q)]} : \A pos \in {QuadPos(q)} :
         \A l \in {QuadVoxel(F, pos)} :
         \A ring \in {Ring(Add3(WorldOf(l), F.n), F.n)} :
         \A k \in 1 .. 4 :
            \A touching \in {Touching(ring, WorldOf(Add3(l, F.v[k])))} :
            \A solid \in {Cardinality({s \in touching : IsSolid(s)})} :
               /\ Cardinality(touching) = 3
               /\ \A j \in 1 .. 6 :
                     pos[j] = Add3(l, F.v[k]) => AoOf(QuadWord(q, j)) = solid

\* the positions of ring all lie within the world's height and depth
InYZ(ring) ==
    \A s \in ring :
        /\ s[2] \in 0 .. (WORLD_HEIGHT * CHUNK_SIZE) - 1
        /\ s[3] \in 0 .. (WORLD_DEPTH * CHUNK_SIZE) - 1

\* C23 (amended): for every emitted face whose 8 samples lie within the world's
\* height and depth, each of the four ambient-occlusion values packed into the
\* quad's vertices v0..v3 equals the number of empty voxels among the 3
\* samples that touch that vertex's corner (a sample beyond an x edge of the
\* world counting as not empty), and is therefore in 0..3: 3 is a corner with
\* nothing around it.
InvC23 ==
    Built =>
      \A q \in Quads :
         \A F \in {Faces[QuadFace(q)]} : \A pos \in {QuadPos(q)} :
         \A l \in {QuadVoxel(F, pos)} :
         \A ring \in {Ring(Add3(WorldOf(l), F.n), F.n)} :
            InYZ(ring) =>
              /\ \A j \in 1 .. 6 : \E k \in 1 .. 4 : pos[j] = Add3(l, F.v[k])
              /\ \A k \in 1 .. 4 :
                   \A touching \in {Touching(ring, WorldOf(Add3(l, F.v[k])))} :
                   \A empty \in {Cardinality({s \in touching : IsEmpty(s)})} :
                      /\ Cardinality(touching) = 3
                      /\ empty \in 0 .. 3
                      /\ \A j \in 1 .. 6 :
                            pos[j] = Add3(l, F.v[k]) => AoOf(QuadWord(q, j)) = empty

\* C23 witness: a quad whose samples are all inside the world, with a solid
\* diagonal sample in another chunk than the voxel's, and corners of 2 and 3
WitC23 ==
    /\ Built
    /\ \E q \in Quads :
         \E F \in {Faces[QuadFace(q)]} :
         \E front \in {Add3(WorldOf(QuadVoxel(F, QuadPos(q))), F.n)} :
         \E ring \in {Ring(front, F.n)} :
             /\ \A s \in ring : InWorld(s)
             /\ \E s \in ring :
                  /\ IsSolid(s)
                  /\ ChunkOf(s) # mesh_chunk
                  /\ Cardinality({a \in 1 .. 3 : s[a] # front[a]}) = 2
             /\ \E j \in 1 .. 6 : AoOf(QuadWord(q, j)) = 2
             /\ \E j \in 1 .. 6 : AoOf(QuadWord(q, j)) = 3

\* the corner (0 .. 3 for v0 .. v3) of the face F of the voxel at l that lies
\* at the position p, -1 if none does
CornerAt(F, l, p) ==
    IF \E k \in 1 .. 4 : Add3(l, F.v[k]) = p
    THEN (CHOOSE k \in 1 .. 4 : Add3(l, F.v[k]) = p) - 1
    ELSE -1

\* the corners the six words of quad q lie at, in the order of the words
QuadCorners(q) ==
    CHOOSE cs \in {[j \in 1 .. 6 |-> CornerAt(F, l, pos[j])] :
                     F \in {Faces[QuadFace(q)]}, pos \in {QuadPos(q)},
                     l \in {QuadVoxel(Faces[QuadFace(q)], QuadPos(q))}} : TRUE

\* the ambient-occlusion value quad q carries at its corner k (0 .. 3): that
\* of its first word there
QuadAo(q, cs, k) == AoOf(QuadWord(q, CHOOSE j \in 1 .. 6 : cs[j] = k))

\* C24: for every emitted face, all 6 words carry flip_id = 1 exactly when
\* ao1 + ao3 > ao0 + ao2 and flip_id = 0 otherwise; with flip_id = 0 the two
\* triangles share the diagonal v0-v2 and with flip_id = 1 the diagonal v1-v3,
\* and in both cases the 6 words are the 4 quad corners, the two diagonal
\* corners appearing twice.
InvC24 ==
    Built =>
      \A q \in Quads :
         \A cs \in {QuadCorners(q)} :
         \A flip \in {FlipOf(QuadWord(q, 1))} :
            /\ \A j \in 1 .. 6 : cs[j] \in 0 .. 3 /\ FlipOf(QuadWord(q, j)) = flip
            /\ {cs[j] : j \in 1 .. 6} = 0 .. 3
            /\ \A j \in 1 .. 6 : AoOf(QuadWord(q, j)) = QuadAo(q, cs, cs[j])
            /\ \A ao \in {[k \in 0 .. 3 |-> QuadAo(q, cs, k)]} :
                  (flip = 1) <=> (ao[1] + ao[3] > ao[0] + ao[2])
            /\ Cardinality({cs[1], cs[2], cs[3]}) = 3
            /\ Cardinality({cs[4], cs[5], cs[6]}) = 3
            /\ {cs[1], cs[2], cs[3]} \cap {cs[4], cs[5], cs[6]}
                 = (IF flip = 1 THEN {1, 3} ELSE {0, 2})

\* C24 witness: the mesh holds a flipped quad, a quad left unflipped with
\* ao0 + ao2 above ao1 + ao3, and one left unflipped on a tie of unequal values
WitC24 ==
    /\ Built
    /\ \E q \in Quads : FlipOf(QuadWord(q, 1)) = 1
    /\ \E q \in Quads : \E cs \in {QuadCorners(q)} :
          /\ FlipOf(QuadWord(q, 1)) = 0
          /\ QuadAo(q, cs, 0) + QuadAo(q, cs, 2) > QuadAo(q, cs, 1) + QuadAo(q, cs, 3)
    /\ \E q \in Quads : \E cs \in {QuadCorners(q)} :
          /\ FlipOf(QuadWord(q, 1)) = 0
          /\ QuadAo(q, cs, 0) + QuadAo(q, cs, 2) = QuadAo(q, cs, 1) + QuadAo(q, cs, 3)
          /\ QuadAo(q, cs, 0) # QuadAo(q, cs, 2)

Sub3(p, q) == << p[1] - q[1], p[2] - q[2], p[3] - q[3] >>

\* (p1 - p0) x (p2 - p0) of the triangle p0, p1, p2
TriangleCross(p0, p1, p2) ==
    CHOOSE c \in {Cross(a, b) : a \in {Sub3(p1, p0)}, b \in {Sub3(p2, p0)}} : TRUE

\* C25: for each of the 6 face directions and both flip states, both emitted
\* triangles are wound counter-clockwise as seen from outside the voxel: the
\* cross product (p1 - p0) x (p2 - p0) of each triangle's vertex positions
\* points along the face's outward normal.
InvC25 ==
    Built =>
      \A q \in Quads :
         \A n \in {Faces[QuadFace(q)].n} : \A pos \in {QuadPos(q)} :
            /\ TriangleCross(pos[1], pos[2], pos[3]) = n
            /\ TriangleCross(pos[4], pos[5], pos[6]) = n

\* C25 witness: the mesh holds a flipped and an unflipped quad, on faces of
\* opposite directions
WitC25 ==
    /\ Built
    /\ \E q1 \in Quads : \E q2 \in Quads :
          /\ FlipOf(QuadWord(q1, 1)) = 1
          /\ FlipOf(QuadWord(q2, 1)) = 0
          /\ Faces[QuadFace(q1)].n = Sub3(<<0, 0, 0>>, Faces[QuadFace(q2)].n)

\* ------------------------------------------------------------ ray steps
\* an iteration of cast_ray's loop that found no voxel and advanced
Advanced == rc_pc = "loop" /\ rc_pc' = "loop"

\* the axes (1: x, 2: y, 3: z) whose boundary parameter is the smallest
Smallest == {a \in 1 .. 3 : \A b \in 1 .. 3 : max_t[a] <= max_t[b]}

\* the first axis of order that is among the smallest
FirstOf(order) == order[CHOOSE i \in 1 .. 3 : /\ order[i] \in Smallest
                                              /\ \A j \in 1 .. i - 1 : order[j] \notin Smallest]

\* the axis the step just taken advanced
AxisStepped == step_direction' + 1

\* C26 (as stated): in each cast_ray iteration without a hit the axis advanced
\* is one with the smallest accumulated boundary parameter, and when two or
\* three axes share that smallest value the tie is broken in the fixed order X
\* before Z before Y.
OrigC26 ==
    [][ Advanced => /\ AxisStepped \in Smallest
                    /\ AxisStepped = FirstOf(<<1, 3, 2>>)
                    /\ max_t' = [max_t EXCEPT ![AxisStepped] = @ + delta[AxisStepped]] ]_vars

\* C26 (amended): in each cast_ray iteration without a hit the axis advanced is
\* one with the smallest accumulated boundary parameter, and when two or three
\* axes share that smallest value the tie is broken in the fixed order Z before
\* Y before X.
InvC26 ==
    [][ Advanced => /\ AxisStepped \in Smallest
                    /\ AxisStepped = FirstOf(<<3, 2, 1>>)
                    /\ max_t' = [max_t EXCEPT ![AxisStepped] = @ + delta[AxisStepped]] ]_vars

\* the boundary parameters before the step taken last
MaxBefore == [max_t EXCEPT ![step_direction + 1] = @ - delta[step_direction + 1]]

\* C26 witness: the loop has just advanced along y, whose parameter was equal to
\* that of x and below that of z, all three axes being ones the ray moves along
WitC26 ==
    /\ rc_pc = "loop"
    /\ step_direction = 1
    /\ \A a \in 1 .. 3 : dxyz[a] # 0
    /\ MaxBefore[1] = MaxBefore[2]
    /\ MaxBefore[2] < MaxBefore[3]

\* C27 (as stated): for a ray direction with a zero component on some axis,
\* cast_ray uses the large sentinel delta for that axis and that axis never
\* advances: it is never the axis selected for a step and the current voxel
\* coordinate on it stays equal to the eye's voxel coordinate for the whole
\* cast, whatever the fractional part of the eye position.
OrigC27 ==
    [][ \A a \in 1 .. 3 :
          forward_ray[a] = 0 =>
             /\ rc_pc' # "idle" =>
                  /\ delta'[a] = SENTINEL * TUnit
                  /\ current_voxel_position'[a] = EyeVoxel(position)[a]
             /\ Advanced => AxisStepped # a ]_vars

\* ------------------------------------------------------------ indexing
\* the two flat indexings as the claim writes them
FlatLocal(x, y, z) == x + (CHUNK_SIZE * z) + (CHUNK_SIZE * CHUNK_SIZE * y)
FlatChunk(cx, cy, cz) == cx + (WORLD_WIDTH * cz) + (WORLD_WIDTH * WORLD_DEPTH * cy)

Locals == (0 .. CHUNK_SIZE - 1) \X (0 .. CHUNK_SIZE - 1) \X (0 .. CHUNK_SIZE - 1)
ChunkPositions == (0 .. WORLD_WIDTH - 1) \X (0 .. WORLD_HEIGHT - 1) \X (0 .. WORLD_DEPTH - 1)

\* both indexings are one-to-one and onto
Bijections ==
    /\ \A l1 \in Locals : \A l2 \in Locals :
          FlatLocal(l1[1], l1[2], l1[3]) = FlatLocal(l2[1], l2[2], l2[3]) => l1 = l2
    /\ {FlatLocal(l[1], l[2], l[3]) : l \in Locals} = 0 .. CHUNK_VOLUME - 1
    /\ \A c1 \in ChunkPositions : \A c2 \in ChunkPositions :
          FlatChunk(c1[1], c1[2], c1[3]) = FlatChunk(c2[1], c2[2], c2[3]) => c1 = c2
    /\ {FlatChunk(c[1], c[2], c[3]) : c \in ChunkPositions} = 0 .. WORLD_VOLUME - 1

\* the voxels a terrain puts in the chunk at cp: the local positions below the
\* column's height
TerrainSolid(cp, l) == l[2] + (cp[2] * CHUNK_SIZE) < terrain[<<l[1] + (cp[1] * CHUNK_SIZE), l[3] + (cp[3] * CHUNK_SIZE)>>]

\* world construction uses the two formulas: every chunk built so far sits in
\* the slot of its position, with its voxels at the flat index of theirs
BuiltByFormula ==
    \A cp \in ChunkPositions :
       \A slot \in {FlatChunk(cp[1], cp[2], cp[3])} :
          chunks[slot] # << >> =>
             /\ chunks[slot] = cp
             /\ \A l \in Locals :
                  (voxels[slot][FlatLocal(l[1], l[2], l[3])] # 0) <=> TerrainSolid(cp, l)

\* mesh building and ray casting use them: for every position inside the world
\* get_chunk_index and get_voxel_id name the slot of the position's chunk, and
\* is_void and get_voxel_id the flat index of its local position
LookedUpByFormula ==
    \A cp \in ChunkPositions : \A l \in Locals :
       \A p \in {<< l[1] + (cp[1] * CHUNK_SIZE), l[2] + (cp[2] * CHUNK_SIZE),
                    l[3] + (cp[3] * CHUNK_SIZE) >>} :
       \A result \in {get_voxel_id(voxels, p)} :
          /\ get_chunk_index(p) = FlatChunk(cp[1], cp[2], cp[3])
          /\ is_void_index(l) = FlatLocal(l[1], l[2], l[3])
          /\ voxels[FlatChunk(cp[1], cp[2], cp[3])][FlatLocal(l[1], l[2], l[3])] # 0
               => /\ result.chunk = FlatChunk(cp[1], cp[2], cp[3])
                  /\ result.voxel_index = FlatLocal(l[1], l[2], l[3])
                  /\ result.voxel_local_position = l

\* C28: the flat indexings are bijections with the z-before-y stride: local
\* (x, y, z) onto 0 .. S^3 - 1 by x + S*z + S*S*y and chunk (cx, cy, cz) onto
\* 0 .. WORLD_VOLUME - 1 by cx + WIDTH*cz + WIDTH*DEPTH*cy; world construction,
\* mesh building and ray casting all use these formulas, so build_chunks fills
\* every chunk slot exactly once with the chunk of that position.
InvC28 ==
    /\ [](Bijections /\ BuiltByFormula /\ LookedUpByFormula)
    /\ [](build_i = WORLD_VOLUME
            => \A cp \in ChunkPositions : chunks[FlatChunk(cp[1], cp[2], cp[3])] = cp)
    /\ [][ build_i' = build_i + 1
             => \E slot \in Chunks :
                   /\ chunks[slot] = << >>
                   /\ chunks'[slot] = BuildPosition(build_i)
                   /\ slot = FlatChunk(chunks'[slot][1], chunks'[slot][2], chunks'[slot][3])
                   /\ \A other \in Chunks \ {slot} :
                         chunks'[other] = chunks[other] /\ voxels'[other] = voxels[other] ]_vars

\* C28 witness: build_chunks is over, on sloping terrain that fills a layer of
\* some chunk in part, with both random numbers drawn
WitC28 ==
    /\ build_i = WORLD_VOLUME
    /\ \A c \in Chunks : chunks[c] # << >> /\ ~is_empty[c]
    /\ \E col1 \in Columns : \E col2 \in Columns : terrain[col1] # terrain[col2]
    /\ \E c \in Chunks : \E l1 \in Locals : \E l2 \in Locals :
          /\ l1[2] = l2[2]
          /\ voxels[c][FlatLocal(l1[1], l1[2], l1[3])] = 0
          /\ voxels[c][FlatLocal(l2[1], l2[2], l2[3])] # 0
    /\ \E c1 \in Chunks : \E c2 \in Chunks : voxels[c1][0] = 1 /\ voxels[c2][0] = 99

\* ------------------------------------------------------------ mesh coherence
\* the stored mesh of chunk c is what build_chunk_mesh gives for the buffer now
Coherent(c) ==
    get_vertex_data(c, meshes[c])
      = build_chunk_mesh(voxels[c], ChunkPosition(c), voxels, meshes[c].oob, meshes[c].uninit)

\* C29 (as stated): following every add_voxel or remove_voxel, the stored mesh
\* of every chunk of the world equals what build_chunk_mesh would produce from
\* the current voxel buffer, including the ambient-occlusion values of faces in
\* face-, edge- and corner-adjacent chunks that sample the changed voxel
\* diagonally.
OrigC29 ==
    (history # << >> /\ raised = "") => \A c \in Chunks : Coherent(c)

\* ------------------------------------------------------------ hit normals
\* C30 (as stated): whenever cast_ray reports a hit, including a hit found on
\* the very first iteration because the eye is inside a solid voxel,
\* voxel_normal has exactly one non-zero component and that component is +1 or
\* -1, so that add_voxel's target hit + normal is a face-adjacent voxel
\* different from the hit voxel.
OrigC30 ==
    Hit =>
      /\ Cardinality({a \in 1 .. 3 : voxel_normal[a] # 0}) = 1
      /\ \A a \in 1 .. 3 : voxel_normal[a] \in {-1, 0, 1}
      /\ Add3(voxel_world_position, voxel_normal) # voxel_world_position
====
